---- MODULE Spec2Model ----
(***************************************************************************)
(* Model of the Arch Linux post-install orchestrator (src/install.py) and  *)
(* of its Qt front-end (src/archinstaller.py).                             *)
(*                                                                         *)
(* A behaviour is one launch of one of the two programs.  External         *)
(* commands are the environment: a command fails when the environment      *)
(* says so, a package is queried as present or absent according to the     *)
(* package database, which successful installs update.                     *)
(***************************************************************************)
EXTENDS Integers, Sequences, FiniteSets, TLC

(* ---------------------------------------------------------------------- *)
(* Bounds of the model (not program constants).                            *)
(* ---------------------------------------------------------------------- *)
\* at most this many external commands end with a non-zero exit in one run
MaxFail == 1

(* ---------------------------------------------------------------------- *)
(* Program constants: package lists, src/install.py lines 305-332.         *)
(* ---------------------------------------------------------------------- *)
PACMAN_PROGRAMS_DEFAULT ==
    <<"android-tools", "bat", "bleachbit", "btop", "bluez-utils", "cmatrix", "dmidecode", "dosfstools", "expac", "firefox", "fwupd", "gamemode", "gnome-disk-utility", "hwinfo", "inxi", "lib32-gamemode", "lib32-mangohud", "mangohud", "net-tools", "noto-fonts-extra", "ntfs-3g", "samba", "sl", "speedtest-cli", "sshfs", "ttf-hack-nerd", "ttf-liberation", "unrar", "wget", "xdg-desktop-portal-gtk">>
ESSENTIAL_PROGRAMS_DEFAULT ==
    <<"discord", "filezilla", "gimp", "kdenlive", "libreoffice-fresh", "lutris", "obs-studio", "steam", "telegram-desktop", "timeshift", "vlc", "wine">>
PACMAN_PROGRAMS_MINIMAL ==
    <<"android-tools", "bat", "bleachbit", "btop", "bluez-utils", "cmatrix", "dmidecode", "dosfstools", "expac", "firefox", "fwupd", "gnome-disk-utility", "hwinfo", "inxi", "net-tools", "noto-fonts-extra", "ntfs-3g", "samba", "sl", "speedtest-cli", "sshfs", "ttf-hack-nerd", "ttf-liberation", "unrar", "wget", "xdg-desktop-portal-gtk">>
ESSENTIAL_PROGRAMS_MINIMAL ==
    <<"libreoffice-fresh", "timeshift", "vlc">>
KDE_INSTALL_PROGRAMS ==
    <<"gwenview", "kdeconnect", "kwalletmanager", "kvantum", "okular", "power-profiles-daemon", "python-pyqt5", "python-pyqt6", "qbittorrent", "spectacle">>
KDE_REMOVE_PROGRAMS ==
    <<"htop">>
GNOME_INSTALL_PROGRAMS ==
    <<"celluloid", "dconf-editor", "gnome-tweaks", "gufw", "seahorse", "transmission-gtk">>
GNOME_REMOVE_PROGRAMS ==
    <<"epiphany", "gnome-contacts", "gnome-maps", "gnome-music", "gnome-tour", "htop", "snapshot", "totem">>
COSMIC_INSTALL_PROGRAMS ==
    <<"power-profiles-daemon", "transmission-gtk">>
COSMIC_REMOVE_PROGRAMS ==
    <<"htop">>
YAY_PROGRAMS_DEFAULT ==
    <<"brave-bin", "heroic-games-launcher-bin", "megasync-bin", "spotify", "stacer-bin", "stremio", "teamviewer", "via-bin">>
YAY_PROGRAMS_MINIMAL ==
    <<"brave-bin", "stacer-bin", "stremio", "teamviewer">>
FLATPAK_KDE ==
    <<"io.github.shiftey.Desktop", "it.mijorus.gearlever", "net.davidotek.pupgui2">>
FLATPAK_GNOME ==
    <<"com.mattjakeman.ExtensionManager", "io.github.shiftey.Desktop", "it.mijorus.gearlever", "com.vysp3r.ProtonPlus">>
FLATPAK_COSMIC ==
    <<"io.github.shiftey.Desktop", "it.mijorus.gearlever", "com.vysp3r.ProtonPlus", "dev.edfloreshz.CosmicTweaks">>
FLATPAK_MINIMAL_KDE ==
    <<"it.mijorus.gearlever">>
FLATPAK_MINIMAL_GNOME ==
    <<"com.mattjakeman.ExtensionManager", "it.mijorus.gearlever">>
FLATPAK_MINIMAL_COSMIC ==
    <<"it.mijorus.gearlever", "dev.edfloreshz.CosmicTweaks">>
FLATPAK_MINIMAL_GENERIC ==
    <<"it.mijorus.gearlever">>
\* InstallMode, src/install.py lines 31-33
InstallMode == {"default", "minimal"}
\* InstallerConfig.total_steps, src/install.py line 344
total_steps == 20
\* ArchInstaller.helper_utils, src/install.py lines 362-366
helper_utils ==
    <<"base-devel", "bluez-utils", "cronie", "curl", "eza", "fastfetch", "figlet", "flatpak", "fzf", "git", "openssh", "pacman-contrib", "reflector", "rsync", "ufw", "zoxide">>

(* ---------------------------------------------------------------------- *)
(* Input domains of the environment.                                       *)
(* ---------------------------------------------------------------------- *)
\* the sets of identifiers the installed-check reports absent when the run
\* starts; every other identifier is installed already
AbsentChoices ==
    {{}, {"git", "ufw", "spotify", "stremio", "it.mijorus.gearlever",
          "io.github.shiftey.Desktop"}}
\* the desktop names XDG_CURRENT_DESKTOP is drawn from
\* XDG_CURRENT_DESKTOP, as the set of the markers the string contains
DesktopValues == {{}, {"KDE"}, {"GNOME"}, {"COSMIC"}, {"GNOME", "COSMIC"}}
\* what /boot/loader/entries may hold, in the order glob yields it
EntryDirs ==
    {[exists |-> FALSE, listing |-> <<>>],
     [exists |-> TRUE, listing |-> <<"arch.conf">>],
     [exists |-> TRUE, listing |-> <<"arch-fallback.conf", "arch.conf">>]}

VARIABLES
    program,            \* which program was launched: "install.py" or "archinstaller.py"
    euid,               \* os.geteuid() of the process
    pacman_present,     \* the pacman binary exists
    sudo_valid,         \* "sudo -v" accepts the credential
    network,            \* the network is reachable
    absent,             \* identifiers the installed-check reports absent
    yay_present,        \* the yay binary exists
    install_mode,       \* InstallerConfig.install_mode
    current_step,       \* InstallerConfig.current_step
    installed_packages, \* InstallerConfig.installed_packages
    removed_packages,   \* InstallerConfig.removed_packages
    errors,             \* InstallerConfig.errors
    pc,                 \* position of the pipeline thread in main
    exit_code,          \* exit status of the process, once pc is "exited" or "crashed"
    sudo_thread,        \* keep_sudo_alive thread: "none", "running", "stopped"
    sudo_check_failed,  \* the latest `sudo -n true` of keep_sudo_alive ended non-zero
    announced,          \* history: what step() has printed
    trace,              \* history: the operations main has called
    failed,             \* history: external commands that ended non-zero
    calls,              \* history: the install calls of the latest operation
    executed,           \* history: the commands the latest operation ran (pacman -Q left out)
    succeeded,          \* history: the identifiers whose install command exited 0
    entries,            \* /boot/loader/entries as the run has seen it
    temp_dirs,          \* the configs and scripts directories exist
    summary,            \* what print_summary has printed
    desktop,            \* what detect_desktop_environment returned in the latest operation
    start_button,       \* GUI: start_button.isEnabled()
    installer_thread,   \* GUI: the InstallerThread: "none", "running", "finished"
    finished_signal,    \* GUI: finished(int) emissions not yet handled
    dialog,             \* GUI: the last message box shown
    thread_current_step,\* GUI worker: InstallerThread.current_step
    process,            \* GUI worker: the install.sh subprocess and how it ended
    stdout_lines,       \* history: the lines the worker has read from process.stdout
    emitted,            \* history: the worker's signal emissions, in order
    pending,            \* GUI: output_received and progress_updated emissions not yet handled
    output_text,        \* GUI: what output_text.append got since the worker was started
    progress_bar,       \* GUI: progress_bar.value()
    progress_label,     \* GUI: progress_label.text()
    file_kind,          \* FileSpec: the file a step's mutations are applied to, "none" in a run
    file,               \* FileSpec: its content, a sequence of lines, each a sequence of tokens
    applications        \* FileSpec: how many times the step's mutations were applied to it

vars == <<program, euid, pacman_present, sudo_valid, network, absent, yay_present,
          install_mode, current_step, installed_packages, removed_packages, errors,
          pc, exit_code, sudo_thread, sudo_check_failed, announced, trace, failed, calls,
          executed,
          succeeded, entries, temp_dirs, summary, desktop, start_button, installer_thread, finished_signal, dialog,
          thread_current_step, process, stdout_lines, emitted, pending, output_text,
          progress_bar, progress_label, file_kind, file, applications>>

env_vars == <<program, euid, pacman_present, sudo_valid, network>>
file_vars == <<file_kind, file, applications>>
gui_vars == <<start_button, installer_thread, finished_signal, dialog,
          thread_current_step, process, stdout_lines, emitted, pending, output_text,
          progress_bar, progress_label>>

(* ---------------------------------------------------------------------- *)
(* Helpers.                                                                *)
(* ---------------------------------------------------------------------- *)
Range(s) == {s[i] : i \in 1..Len(s)}

RECURSIVE SubsetsUpTo(_, _)
SubsetsUpTo(S, k) ==
    IF k <= 0 THEN {{}}
    ELSE LET P == SubsetsUpTo(S, k - 1)
         IN  P \cup {p \cup {x} : p \in P, x \in S}

\* the sets of commands the environment may fail in one operation
FailChoices(cmds) == SubsetsUpTo(cmds, MaxFail - Len(failed))

IsPacmanQuery(command) ==
    Len(command) = 3 /\ command[1] = "pacman" /\ command[2] = "-Q"

\* commands that cannot succeed without the network
NeedsNetwork(command) ==
    \/ Len(command) >= 3 /\ command[1] = "sudo" /\ command[2] = "pacman"
                         /\ command[3] \in {"-S", "-Syyu"}
    \/ Len(command) >= 2 /\ command[1] = "sudo" /\ command[2] = "reflector"
    \/ Len(command) >= 2 /\ command[1] = "yay" /\ command[2] = "-S"
    \/ Len(command) >= 2 /\ command[1] = "flatpak" /\ command[2] \in {"install", "update", "remote-add"}

\* the binary a command starts is not on the PATH
BinaryMissing(st, command) ==
    \/ command[1] = "yay" /\ ~st.yay
    \/ command[1] = "flatpak" /\ "flatpak" \in st.absent

\* exit status of an external command
ExitCode(st, command) ==
    IF IsPacmanQuery(command)
    THEN IF command[3] \in st.absent \/ command \in st.Q THEN 1 ELSE 0
    ELSE IF command \in st.Q \/ command \in st.F \/ (~network /\ NeedsNetwork(command))
         THEN 1 ELSE 0

\* what a successful command changes in the system
Effect(st, command) ==
    IF Len(command) = 6 /\ command[1] = "sudo" /\ command[2] = "pacman" /\ command[3] = "-S"
    THEN [st EXCEPT !.absent = @ \ {command[6]}]
    ELSE IF Len(command) = 5 /\ command[1] = "yay" /\ command[2] = "-S"
    THEN [st EXCEPT !.absent = @ \ {command[5]}]
    ELSE IF Len(command) = 6 /\ command[1] = "flatpak" /\ command[2] = "install"
    THEN [st EXCEPT !.absent = @ \ {command[6]}]
    ELSE IF command[Len(command)] = "install_yay.sh"
    THEN [st EXCEPT !.yay = TRUE]
    ELSE st

\* a command that only asks: its non-zero exit is an answer, not a failure
IsQuery(st, command) == IsPacmanQuery(command) \/ command \in st.Q

(* ---------------------------------------------------------------------- *)
(* The state one operation of main works on.  raised is the exception      *)
(* that is propagating ("none" when there is none): a statement reached    *)
(* while an exception propagates is not executed.                          *)
(* ---------------------------------------------------------------------- *)
NoCall ==
    [fn |-> "", requested |-> <<>>, present |-> {}, attempted |-> <<>>, cmds |-> <<>>,
     succeeded |-> <<>>, queries |-> 0, inst0 |-> <<>>, err0 |-> <<>>, inst1 |-> <<>>,
     err1 |-> <<>>, raised |-> "none"]

NewSt(F, Q) ==
    [cs |-> current_step, ann |-> announced, installed |-> installed_packages,
     errors |-> errors, failed |-> failed, absent |-> absent, yay |-> yay_present,
     entries |-> entries, calls |-> <<>>, cur |-> NoCall, raised |-> "none", rc |-> 0, F |-> F, Q |-> Q,
     ran |-> <<>>]

\* ArchInstaller.show_progress: the fraction it prints
show_progress(st) == [done |-> st.cs - 1, total |-> total_steps]

\* step without line 432 (the increment): a variant that C2_StepIndices must reject
step_no_increment(st, description) ==
    IF st.raised # "none" THEN st
    ELSE [st EXCEPT !.ann = Append(@, [index |-> st.cs, description |-> description,
                                       progress |-> show_progress(st)])]

\* ArchInstaller.step
step(st, description) ==
    IF st.raised # "none" THEN st
    ELSE [st EXCEPT !.ann = Append(@, [index |-> st.cs, description |-> description,
                                       progress |-> show_progress(st)]),
                    !.cs = @ + 1]

\* the process for command was started (history)
Ran(st, command) ==
    IF IsPacmanQuery(command) THEN st ELSE [st EXCEPT !.ran = Append(@, command)]

\* ArchInstaller.run_command
run_command(st, command, check) ==
    IF st.raised # "none" THEN st
    ELSE IF BinaryMissing(st, command) THEN [st EXCEPT !.raised = "FileNotFoundError"]
    ELSE IF ExitCode(st, command) = 0 THEN [Effect(Ran(st, command), command) EXCEPT !.rc = 0]
    ELSE LET s0 == Ran(st, command)
             s1 == IF IsQuery(st, command) THEN s0
                   ELSE [s0 EXCEPT !.failed = Append(@, command)]
         IN  IF check
             THEN [s1 EXCEPT !.rc = 1,
                             !.errors = Append(@, <<"Failed to execute:">> \o command),
                             !.raised = "CalledProcessError"]
             ELSE [s1 EXCEPT !.rc = 1]

\* subprocess.run(command, capture_output=True) called directly: no check, no record
subprocess_run(st, command) ==
    IF st.raised # "none" THEN st
    ELSE IF BinaryMissing(st, command) THEN [st EXCEPT !.raised = "FileNotFoundError"]
    ELSE IF ExitCode(st, command) = 0 THEN [Ran(st, command) EXCEPT !.rc = 0]
    ELSE IF IsQuery(st, command) THEN [Ran(st, command) EXCEPT !.rc = 1]
    ELSE [Ran(st, command) EXCEPT !.rc = 1, !.failed = Append(@, command)]

\* except subprocess.CalledProcessError: (a handler that only prints)
except_CalledProcessError(st) ==
    IF st.raised = "CalledProcessError" THEN [st EXCEPT !.raised = "none"] ELSE st

\* except Exception:
except_Exception(st) ==
    IF st.raised \in {"none", "SystemExit"} THEN st ELSE [st EXCEPT !.raised = "none"]

(* ---------------------------------------------------------------------- *)
(* Install calls.  Each call leaves a record in calls: what was requested, *)
(* what the installed-check reported present, the install commands issued. *)
(* ---------------------------------------------------------------------- *)
BeginCall(st, fn, requested) ==
    [st EXCEPT !.cur = [NoCall EXCEPT !.fn = fn, !.requested = requested,
                                      !.inst0 = st.installed, !.err0 = st.errors]]

EndCall(st) ==
    [st EXCEPT !.calls = Append(@, [st.cur EXCEPT !.inst1 = st.installed,
                                                  !.err1 = st.errors,
                                                  !.raised = st.raised]),
               !.cur = NoCall]

\* Attempt without the errors.append of the handler: a variant that
\* C8_FailedIdentifierRecorded must reject
Attempt_no_error_entry(st, pkg, command, failure, record_installed) ==
    LET s0 == [st EXCEPT !.cur.attempted = Append(@, pkg),
                         !.cur.cmds = Append(@, command)]
        s1 == run_command(s0, command, TRUE)
    IN  IF s1.raised = "none"
        THEN [s1 EXCEPT !.cur.succeeded = Append(@, pkg),
                        !.installed = IF record_installed THEN Append(@, pkg) ELSE @]
        ELSE IF s1.raised = "CalledProcessError"
        THEN [s1 EXCEPT !.raised = "none"]
        ELSE s1

\* Attempt with the installed list extended whatever the exit status
Attempt_recording_failure(st, pkg, command, failure, record_installed) ==
    LET s0 == [st EXCEPT !.cur.attempted = Append(@, pkg),
                         !.cur.cmds = Append(@, command)]
        s1 == run_command(s0, command, TRUE)
    IN  IF s1.raised = "none"
        THEN [s1 EXCEPT !.cur.succeeded = Append(@, pkg),
                        !.installed = IF record_installed THEN Append(@, pkg) ELSE @]
        ELSE IF s1.raised = "CalledProcessError"
        THEN [s1 EXCEPT !.raised = "none", !.errors = Append(@, <<failure, pkg>>),
                        !.installed = IF record_installed THEN Append(@, pkg) ELSE @]
        ELSE s1

\* Attempt with the identifier put at the front of the installed list
Attempt_prepending(st, pkg, command, failure, record_installed) ==
    LET s0 == [st EXCEPT !.cur.attempted = Append(@, pkg),
                         !.cur.cmds = Append(@, command)]
        s1 == run_command(s0, command, TRUE)
    IN  IF s1.raised = "none"
        THEN [s1 EXCEPT !.cur.succeeded = Append(@, pkg),
                        !.installed = IF record_installed THEN <<pkg>> \o @ ELSE @]
        ELSE IF s1.raised = "CalledProcessError"
        THEN [s1 EXCEPT !.raised = "none", !.errors = Append(@, <<failure, pkg>>)]
        ELSE s1

\* Attempt without the try/except of lines 619-627: the failure leaves the loop
Attempt_without_except(st, pkg, command, failure, record_installed) ==
    LET s0 == [st EXCEPT !.cur.attempted = Append(@, pkg),
                         !.cur.cmds = Append(@, command)]
        s1 == run_command(s0, command, TRUE)
    IN  IF s1.raised = "none"
        THEN [s1 EXCEPT !.cur.succeeded = Append(@, pkg),
                        !.installed = IF record_installed THEN Append(@, pkg) ELSE @]
        ELSE s1

\* one attempt: the command, then the try/except around it
Attempt(st, pkg, command, failure, record_installed) ==
    LET s0 == [st EXCEPT !.cur.attempted = Append(@, pkg),
                         !.cur.cmds = Append(@, command)]
        s1 == run_command(s0, command, TRUE)
    IN  IF s1.raised = "none"
        THEN [s1 EXCEPT !.cur.succeeded = Append(@, pkg),
                        !.installed = IF record_installed THEN Append(@, pkg) ELSE @]
        ELSE IF s1.raised = "CalledProcessError"
        THEN [s1 EXCEPT !.raised = "none", !.errors = Append(@, <<failure, pkg>>)]
        ELSE s1

PacmanInstallCmd(pkg) == <<"sudo", "pacman", "-S", "--noconfirm", "--needed", pkg>>

\* the loop body without the continue of line 614: a variant that
\* C1_PresentNeverInstalled must reject
install_packages_body_no_continue(st, pkg) ==
    LET q == run_command([st EXCEPT !.cur.queries = @ + 1], <<"pacman", "-Q", pkg>>, FALSE)
    IN  IF q.raised # "none" THEN q
        ELSE Attempt(IF q.rc = 0 THEN [q EXCEPT !.cur.present = @ \cup {pkg}] ELSE q,
                     pkg, PacmanInstallCmd(pkg), "Failed to install", TRUE)

\* the body of the loop of install_packages, for one pkg
install_packages_body(st, pkg) ==
    LET q == run_command([st EXCEPT !.cur.queries = @ + 1], <<"pacman", "-Q", pkg>>, FALSE)
    IN  IF q.raised # "none" THEN q
        ELSE IF q.rc = 0 THEN [q EXCEPT !.cur.present = @ \cup {pkg}]
        ELSE Attempt(q, pkg, PacmanInstallCmd(pkg), "Failed to install", TRUE)

RECURSIVE install_packages_loop(_, _, _)
install_packages_loop(st, packages, i) ==
    IF i > Len(packages) \/ st.raised # "none" THEN st
    ELSE install_packages_loop(install_packages_body(st, packages[i]), packages, i + 1)

\* ArchInstaller.install_packages
install_packages(st, packages) ==
    IF st.raised # "none" THEN st
    ELSE EndCall(install_packages_loop(BeginCall(st, "install_packages", packages),
                                       packages, 1))

YayInstallCmd(pkg) == <<"yay", "-S", "--noconfirm", "--needed", pkg>>

\* the body of the loop of install_aur_packages, for one pkg
install_aur_packages_body(st, pkg) ==
    LET q == run_command([st EXCEPT !.cur.queries = @ + 1], <<"pacman", "-Q", pkg>>, FALSE)
    IN  IF q.raised # "none" THEN q
        ELSE IF q.rc = 0 THEN [q EXCEPT !.cur.present = @ \cup {pkg}]
        ELSE Attempt(q, pkg, YayInstallCmd(pkg), "Failed to install AUR", FALSE)

RECURSIVE install_aur_packages_loop(_, _, _)
install_aur_packages_loop(st, aur_list, i) ==
    IF i > Len(aur_list) \/ st.raised # "none" THEN st
    ELSE install_aur_packages_loop(install_aur_packages_body(st, aur_list[i]), aur_list, i + 1)

\* ArchInstaller.install_aur_packages
install_aur_packages(st, aur_list) ==
    IF st.raised # "none" THEN st
    ELSE EndCall(install_aur_packages_loop(BeginCall(st, "install_aur_packages", aur_list),
                                           aur_list, 1))

FlatpakListCmd == <<"flatpak", "list", "--app">>
FlatpakInstallCmd(pkg) == <<"flatpak", "install", "-y", "--noninteractive", "flathub", pkg>>

\* "pkg in result.stdout": the listing of a failed "flatpak list" is empty
InFlatpakListing(st, pkg) == st.rc = 0 /\ pkg \notin st.absent

\* the loop body without the continue of line 756: a variant that
\* C9_OneCommandPerIdentifier must reject
install_flatpaks_body_no_continue(st, pkg) ==
    LET q == subprocess_run([st EXCEPT !.cur.queries = @ + 1], FlatpakListCmd)
    IN  IF q.raised # "none" THEN q
        ELSE Attempt(IF InFlatpakListing(q, pkg) THEN [q EXCEPT !.cur.present = @ \cup {pkg}]
                     ELSE q,
                     pkg, FlatpakInstallCmd(pkg), "Failed to install Flatpak", FALSE)

\* the body of the loop of install_flatpaks, for one pkg
install_flatpaks_body(st, pkg) ==
    LET q == subprocess_run([st EXCEPT !.cur.queries = @ + 1], FlatpakListCmd)
    IN  IF q.raised # "none" THEN q
        ELSE IF InFlatpakListing(q, pkg) THEN [q EXCEPT !.cur.present = @ \cup {pkg}]
        ELSE Attempt(q, pkg, FlatpakInstallCmd(pkg), "Failed to install Flatpak", FALSE)

RECURSIVE install_flatpaks_loop(_, _, _)
install_flatpaks_loop(st, flatpak_list, i) ==
    IF i > Len(flatpak_list) \/ st.raised # "none" THEN st
    ELSE install_flatpaks_loop(install_flatpaks_body(st, flatpak_list[i]), flatpak_list, i + 1)

\* ArchInstaller.install_flatpaks
install_flatpaks(st, flatpak_list) ==
    IF st.raised # "none" THEN st
    ELSE EndCall(install_flatpaks_loop(BeginCall(st, "install_flatpaks", flatpak_list),
                                       flatpak_list, 1))

(* ---------------------------------------------------------------------- *)
(* Initial state: InstallerConfig as ArchInstaller.__init__ builds it, and *)
(* the environment the program is launched in.                             *)
(* ---------------------------------------------------------------------- *)
\* InstallerThread before run has started the subprocess
NoProcess == [state |-> "none", returncode |-> 0, errors |-> FALSE]

\* InstallerConfig, ArchInstaller and the window as their constructors leave them
InitConfig ==
    /\ install_mode = "default"
    /\ current_step = 1
    /\ installed_packages = <<>>
    /\ removed_packages = <<>>
    /\ errors = <<>>
    /\ pc = IF program = "install.py" THEN "main" ELSE "gui"
    /\ exit_code = 0
    /\ sudo_thread = "none"
    /\ sudo_check_failed = FALSE
    /\ announced = <<>>
    /\ trace = <<>>
    /\ failed = <<>>
    /\ calls = <<>>
    /\ executed = <<>>
    /\ succeeded = {}
    /\ entries = [exists |-> FALSE, listing |-> <<>>]
    /\ temp_dirs = {"configs", "scripts"}
    /\ summary = [printed |-> FALSE, installed |-> <<>>, removed |-> <<>>, errors |-> <<>>]
    /\ desktop = ""
    /\ start_button = TRUE
    /\ installer_thread = "none"
    /\ finished_signal = <<>>
    /\ dialog = "none"
    /\ thread_current_step = 0
    /\ process = NoProcess
    /\ stdout_lines = <<>>
    /\ emitted = <<>>
    /\ pending = <<>>
    /\ output_text = <<>>
    /\ progress_bar = 0
    /\ progress_label = "Ready to start installation"

Init ==
    /\ program \in {"install.py", "archinstaller.py"}
    /\ euid \in {0, 1000}
    /\ pacman_present \in BOOLEAN
    /\ sudo_valid \in BOOLEAN
    /\ network \in BOOLEAN
    /\ absent \in AbsentChoices
    /\ yay_present \in BOOLEAN
    /\ program = "archinstaller.py" =>
           sudo_valid /\ network /\ absent = {} /\ ~yay_present
    /\ InitConfig
    /\ file_kind = "none"
    /\ file = <<>>
    /\ applications = 0

\* the process has ended
Ended == pc \in {"exited", "crashed", "done"}

\* the end of an operation in a program that lists the removal commands that
\* succeeded in removed_packages
Commit_recording_removals(st, op, next) ==
    /\ current_step' = st.cs
    /\ announced' = st.ann
    /\ installed_packages' = st.installed
    /\ errors' = st.errors
    /\ failed' = st.failed
    /\ absent' = st.absent
    /\ yay_present' = st.yay
    /\ entries' = st.entries
    /\ calls' = st.calls
    /\ executed' = st.ran
    /\ succeeded' = succeeded \cup (absent \ st.absent)
    /\ trace' = Append(trace, op)
    /\ pc' = IF st.raised = "none" THEN next
             ELSE IF st.raised = "SystemExit" THEN "exited" ELSE "crashed"
    /\ exit_code' = IF st.raised = "none" THEN exit_code ELSE 1
    \* a daemon thread ends with the process
    /\ sudo_thread' = IF st.raised = "none" /\ next # "done" THEN sudo_thread
                      ELSE IF sudo_thread = "running" THEN "stopped" ELSE sudo_thread
    /\ removed_packages' =
           removed_packages \o
           SelectSeq(st.ran, LAMBDA c : Len(c) = 5 /\ c[3] = "-Rns" /\ c \notin Range(st.failed))
    /\ UNCHANGED <<env_vars, file_vars, gui_vars, install_mode, sudo_check_failed>>

\* the end of one operation of main: its effects on InstallerConfig and on the
\* system, and where main goes: on, or out with the exception that escaped
Commit(st, op, next) ==
    /\ current_step' = st.cs
    /\ announced' = st.ann
    /\ installed_packages' = st.installed
    /\ errors' = st.errors
    /\ failed' = st.failed
    /\ absent' = st.absent
    /\ yay_present' = st.yay
    /\ entries' = st.entries
    /\ calls' = st.calls
    /\ executed' = st.ran
    /\ succeeded' = succeeded \cup (absent \ st.absent)
    /\ trace' = Append(trace, op)
    /\ pc' = IF st.raised = "none" THEN next
             ELSE IF st.raised = "SystemExit" THEN "exited" ELSE "crashed"
    /\ exit_code' = IF st.raised = "none" THEN exit_code ELSE 1
    \* a daemon thread ends with the process
    /\ sudo_thread' = IF st.raised = "none" /\ next # "done" THEN sudo_thread
                      ELSE IF sudo_thread = "running" THEN "stopped" ELSE sudo_thread
    /\ UNCHANGED <<env_vars, file_vars, gui_vars, install_mode, removed_packages, sudo_check_failed>>


RECURSIVE run_all(_, _, _)
\* run_command on each command in turn, outside any try
run_all(st, cmds, i) ==
    IF i > Len(cmds) \/ st.raised # "none" THEN st
    ELSE run_all(run_command(st, cmds[i], TRUE), cmds, i + 1)

RECURSIVE try_each(_, _, _)
\* a loop whose body is try: run_command(...) except CalledProcessError: print
try_each(st, cmds, i) ==
    IF i > Len(cmds) \/ st.raised # "none" THEN st
    ELSE try_each(except_CalledProcessError(run_command(st, cmds[i], TRUE)), cmds, i + 1)

\* the install commands of a call the environment may fail: those of the
\* requested identifiers that are not installed
PacmanInstallCmds(packages) == {PacmanInstallCmd(p) : p \in Range(packages) \cap absent}
YayInstallCmds(packages) == {YayInstallCmd(p) : p \in Range(packages) \cap absent}
FlatpakInstallCmds(packages) == {FlatpakInstallCmd(p) : p \in Range(packages) \cap absent}

(* ---------------------------------------------------------------------- *)
(* main, src/install.py lines 1006-1047, one action per call it makes.     *)
(* ---------------------------------------------------------------------- *)
\* show_menu is called by main and defined nowhere in src/: the mode selection
\* of the specification (selected once before the pipeline starts)
show_menu(choice) == choice

\* main_begin without the sys.exit(1) of line 1015: a variant that
\* C7_CredentialFailureAborts must reject
main_begin_no_exit ==
    /\ pc = "main"
    /\ \E choice \in InstallMode : install_mode' = show_menu(choice)
    /\ current_step' = 1
    /\ sudo_thread' = "running"
    /\ pc' = "check_prerequisites"
    /\ exit_code' = exit_code
    /\ trace' = Append(trace, "main")
    /\ UNCHANGED <<env_vars, file_vars, gui_vars, absent, yay_present, installed_packages,
                   removed_packages, errors, announced, failed, calls, executed,
                   sudo_check_failed,
                   succeeded, entries, temp_dirs, summary, desktop>>

\* main up to the start of the pipeline: menu, credential check, keep-alive thread
main_begin ==
    /\ pc = "main"
    /\ \E choice \in InstallMode : install_mode' = show_menu(choice)
    /\ current_step' = 1
    /\ IF sudo_valid
       THEN /\ sudo_thread' = "running"
            /\ pc' = "check_prerequisites"
            /\ exit_code' = exit_code
       ELSE /\ sudo_thread' = sudo_thread
            /\ pc' = "exited"
            /\ exit_code' = 1
    /\ trace' = Append(trace, "main")
    /\ UNCHANGED <<env_vars, file_vars, gui_vars, absent, yay_present, installed_packages,
                   removed_packages, errors, announced, failed, calls, executed,
                   sudo_check_failed,
                   succeeded, entries, temp_dirs, summary, desktop>>

\* keep_sudo_alive without the break of line 1022: a variant that
\* C18_KeepAliveReadOnly must reject
keep_sudo_alive_no_break ==
    /\ sudo_thread = "running"
    /\ ~Ended
    /\ \E ok \in BOOLEAN : sudo_check_failed' = ~ok
    /\ sudo_thread' = "running"
    /\ UNCHANGED <<env_vars, file_vars, gui_vars, absent, yay_present, install_mode, current_step,
                   installed_packages, removed_packages, errors, pc, exit_code,
                   announced, trace, failed, calls, executed, succeeded, entries, temp_dirs,
                   summary, desktop>>

\* main.keep_sudo_alive: one turn of the loop of the daemon thread: the check,
\* then the sleep, or the break when the check failed
keep_sudo_alive ==
    /\ sudo_thread = "running"
    /\ ~Ended
    /\ \E ok \in BOOLEAN :
        /\ sudo_check_failed' = ~ok
        /\ sudo_thread' = IF ok THEN "running" ELSE "stopped"
    /\ UNCHANGED <<env_vars, file_vars, gui_vars, absent, yay_present, install_mode, current_step,
                   installed_packages, removed_packages, errors, pc, exit_code,
                   announced, trace, failed, calls, executed, succeeded, entries, temp_dirs,
                   summary, desktop>>

\* check_prerequisites without the root check of lines 455-457: a variant that
\* C5_ElevatedRunStopsAtStepOne must reject
check_prerequisites_no_root_check ==
    /\ pc = "check_prerequisites"
    /\ LET s0 == step(NewSt({}, {}), "Checking system prerequisites")
           s1 == IF ~pacman_present THEN [s0 EXCEPT !.raised = "SystemExit"] ELSE s0
       IN  Commit(s1, "check_prerequisites", "set_sudo_pwfeedback")
    /\ desktop' = ""
    /\ UNCHANGED <<temp_dirs, summary>>

\* ArchInstaller.check_prerequisites
check_prerequisites ==
    /\ pc = "check_prerequisites"
    /\ LET s0 == step(NewSt({}, {}), "Checking system prerequisites")
           s1 == IF euid = 0 THEN [s0 EXCEPT !.raised = "SystemExit"]
                 ELSE IF ~pacman_present THEN [s0 EXCEPT !.raised = "SystemExit"]
                 ELSE s0
       IN  Commit(s1, "check_prerequisites", "set_sudo_pwfeedback")
    /\ desktop' = ""
    /\ UNCHANGED <<temp_dirs, summary>>

PwfeedbackCmd ==
    <<"sudo", "bash", "-c", "echo 'Defaults env_reset,pwfeedback' > /etc/sudoers.d/pwfeedback">>

set_sudo_pwfeedback ==
    /\ pc = "set_sudo_pwfeedback"
    /\ \E exists \in BOOLEAN, F \in FailChoices({PwfeedbackCmd}) :
        LET s0 == step(NewSt(F, {}), "Enabling sudo password feedback")
            s1 == IF ~exists THEN run_command(s0, PwfeedbackCmd, TRUE) ELSE s0
        IN  Commit(except_CalledProcessError(s1), "set_sudo_pwfeedback", "install_helper_utils")
    /\ desktop' = ""
    /\ UNCHANGED <<temp_dirs, summary>>

\* main line 1029: self.install_packages(self.helper_utils)
install_helper_utils ==
    /\ pc = "install_helper_utils"
    /\ \E F \in FailChoices(PacmanInstallCmds(helper_utils)) :
        Commit(install_packages(NewSt(F, {}), helper_utils),
               "install_packages", "configure_pacman")
    /\ desktop' = ""
    /\ UNCHANGED <<temp_dirs, summary>>

SedPacmanConf(expr) == <<"sudo", "sed", "-i", expr, "/etc/pacman.conf">>
ConfigurePacmanCmds ==
    <<SedPacmanConf("s/^#Color/Color/"),
      SedPacmanConf("s/^#VerbosePkgLists/VerbosePkgLists/"),
      SedPacmanConf("s/^#ParallelDownloads/ParallelDownloads/"),
      SedPacmanConf("/^Color/a ILoveCandy")>>
MultilibCmd == SedPacmanConf("/^#\\[multilib\\]/,/^#Include/s/^#//")

configure_pacman ==
    /\ pc = "configure_pacman"
    /\ \E multilib_enabled \in BOOLEAN,
          F \in FailChoices(Range(ConfigurePacmanCmds) \cup {MultilibCmd}) :
        LET s0 == step(NewSt(F, {}), "Configuring Pacman")
            s1 == run_all(s0, ConfigurePacmanCmds, 1)
            s2 == IF ~multilib_enabled THEN run_command(s1, MultilibCmd, TRUE) ELSE s1
        IN  Commit(s2, "configure_pacman", "update_mirrors_and_system")
    /\ desktop' = ""
    /\ UNCHANGED <<temp_dirs, summary>>

UpdateCmds ==
    <<<<"sudo", "reflector", "--verbose", "--protocol", "https", "--latest", "5",
        "--sort", "rate", "--save", "/etc/pacman.d/mirrorlist">>,
      <<"sudo", "pacman", "-Syyu", "--noconfirm">>>>

update_mirrors_and_system ==
    /\ pc = "update_mirrors_and_system"
    /\ \E F \in FailChoices(Range(UpdateCmds)) :
        LET s0 == step(NewSt(F, {}), "Updating mirrorlist and system")
        IN  Commit(run_all(s0, UpdateCmds, 1), "update_mirrors_and_system",
                   "install_cpu_microcode")
    /\ desktop' = ""
    /\ UNCHANGED <<temp_dirs, summary>>

\* what reading /proc/cpuinfo gives: a vendor marker, none, or an IOError
CpuInfoValues == {"Intel", "AMD", "other", "unreadable"}

install_cpu_microcode ==
    /\ pc = "install_cpu_microcode"
    /\ \E cpu_info \in CpuInfoValues,
          F \in FailChoices(PacmanInstallCmds(<<"intel-ucode", "amd-ucode">>)) :
        LET s0 == step(NewSt(F, {}), "Installing CPU microcode")
            s1 == IF cpu_info = "unreadable" THEN [s0 EXCEPT !.raised = "OSError"]
                  ELSE IF cpu_info = "Intel" THEN install_packages(s0, <<"intel-ucode">>)
                  ELSE IF cpu_info = "AMD" THEN install_packages(s0, <<"amd-ucode">>)
                  ELSE s0
        IN  Commit(except_Exception(s1), "install_cpu_microcode",
                   "install_kernel_headers_for_all")
    /\ desktop' = ""
    /\ UNCHANGED <<temp_dirs, summary>>

Kernels == <<"linux", "linux-lts", "linux-zen", "linux-hardened">>
\* f"{kernel}-headers"
Headers(kernel) ==
    CASE kernel = "linux" -> "linux-headers"
      [] kernel = "linux-lts" -> "linux-lts-headers"
      [] kernel = "linux-zen" -> "linux-zen-headers"
      [] kernel = "linux-hardened" -> "linux-hardened-headers"
\* the sets of kernels that may be installed
KernelSets == {{}, {"linux"}, {"linux", "linux-lts"}}

RECURSIVE detect_kernels(_, _, _)
\* the first loop: kernel_types, in st.rc order of Kernels
detect_kernels(st, i, kernel_types) ==
    IF i > Len(Kernels) THEN kernel_types
    ELSE detect_kernels(st, i + 1,
            IF run_command(st, <<"pacman", "-Q", Kernels[i]>>, FALSE).rc = 0
            THEN Append(kernel_types, Kernels[i]) ELSE kernel_types)

RECURSIVE install_headers(_, _, _)
install_headers(st, kernel_types, i) ==
    IF i > Len(kernel_types) \/ st.raised # "none" THEN st
    ELSE install_headers(install_packages(st, <<Headers(kernel_types[i])>>),
                         kernel_types, i + 1)

install_kernel_headers_for_all ==
    /\ pc = "install_kernel_headers_for_all"
    /\ \E installed_kernels \in KernelSets,
          F \in FailChoices(PacmanInstallCmds([i \in 1..Len(Kernels) |-> Headers(Kernels[i])])) :
        LET Q  == {<<"pacman", "-Q", Kernels[i]>> :
                      i \in {j \in 1..Len(Kernels) : Kernels[j] \notin installed_kernels}}
            s0 == step(NewSt(F, Q), "Installing kernel headers")
            kernel_types == detect_kernels(s0, 1, <<>>)
        IN  Commit(install_headers(s0, kernel_types, 1),
                   "install_kernel_headers_for_all", "generate_locales")
    /\ desktop' = ""
    /\ UNCHANGED <<temp_dirs, summary>>

LocaleCmds ==
    <<<<"sudo", "sed", "-i", "s/#el_GR.UTF-8 UTF-8/el_GR.UTF-8 UTF-8/", "/etc/locale.gen">>,
      <<"sudo", "locale-gen">>>>

generate_locales ==
    /\ pc = "generate_locales"
    /\ \E F \in FailChoices(Range(LocaleCmds)) :
        LET s0 == step(NewSt(F, {}), "Generating locales")
        IN  Commit(except_CalledProcessError(run_all(s0, LocaleCmds, 1)),
                   "generate_locales", "setup_zsh")
    /\ desktop' = ""
    /\ UNCHANGED <<temp_dirs, summary>>

OhMyZshCmd == <<"sh", "-c", "RUNZSH=no CHSH=no KEEP_ZSHRC=yes yes | sh -c \"$(curl ... install.sh)\"">>
ChshCmd == <<"sudo", "chsh", "-s", "zsh", "USER">>
ZshPackages == <<"zsh", "zsh-autosuggestions", "zsh-syntax-highlighting">>

setup_zsh ==
    /\ pc = "setup_zsh"
    /\ \E oh_my_zsh_exists \in BOOLEAN,
          F \in FailChoices({OhMyZshCmd, ChshCmd}
                              \cup PacmanInstallCmds(ZshPackages)) :
        LET s0 == step(NewSt(F, {}), "Setting up ZSH")
            s1 == install_packages(s0, ZshPackages)
            s2 == IF ~oh_my_zsh_exists THEN run_command(s1, OhMyZshCmd, TRUE) ELSE s1
            \* shutil.which("zsh") is None when zsh is not installed: subprocess.run
            \* raises TypeError on the None argument
            s3 == IF s2.raised = "none" /\ "zsh" \in s2.absent
                  THEN [s2 EXCEPT !.raised = "TypeError"]
                  ELSE run_command(s2, ChshCmd, TRUE)
        IN  Commit(s3, "setup_zsh", "install_starship")
    /\ desktop' = ""
    /\ UNCHANGED <<temp_dirs, summary>>

install_starship ==
    /\ pc = "install_starship"
    /\ \E F \in FailChoices(PacmanInstallCmds(<<"starship">>)) :
        LET s0 == step(NewSt(F, {}), "Installing Starship prompt")
        IN  Commit(install_packages(s0, <<"starship">>), "install_starship",
                   "run_custom_scripts")
    /\ desktop' = ""
    /\ UNCHANGED <<temp_dirs, summary>>

PlymouthScript == <<"setup_plymouth.sh">>
YayScript == <<"install_yay.sh">>
Fail2banScript == <<"fail2ban.sh">>

\* run_custom_scripts with the boot-splash script left out under the minimal mode:
\* a variant that C12_StepsRunInEveryMode must reject
run_custom_scripts_no_splash ==
    /\ pc = "run_custom_scripts"
    /\ \E F \in FailChoices({PlymouthScript, YayScript, Fail2banScript}) :
        LET s0 == step(NewSt(F, {}), "Running custom scripts")
            \* the scripts exist as long as the scripts directory does
            scripts_exist == "scripts" \in temp_dirs
            s1 == IF scripts_exist /\ install_mode = "default"
                  THEN run_command(s0, PlymouthScript, TRUE) ELSE s0
            s2 == IF scripts_exist /\ ~s1.yay THEN run_command(s1, YayScript, TRUE) ELSE s1
            s3 == IF scripts_exist THEN run_command(s2, Fail2banScript, TRUE) ELSE s2
        IN  Commit(s3, "run_custom_scripts", "make_systemd_boot_silent")
    /\ desktop' = ""
    /\ UNCHANGED <<temp_dirs, summary>>

\* ArchInstaller.run_custom_scripts
run_custom_scripts ==
    /\ pc = "run_custom_scripts"
    /\ \E F \in FailChoices({PlymouthScript, YayScript, Fail2banScript}) :
        LET s0 == step(NewSt(F, {}), "Running custom scripts")
            \* the scripts exist as long as the scripts directory does
            scripts_exist == "scripts" \in temp_dirs
            s1 == IF scripts_exist THEN run_command(s0, PlymouthScript, TRUE) ELSE s0
            s2 == IF scripts_exist /\ ~s1.yay THEN run_command(s1, YayScript, TRUE) ELSE s1
            s3 == IF scripts_exist THEN run_command(s2, Fail2banScript, TRUE) ELSE s2
        IN  Commit(s3, "run_custom_scripts", "make_systemd_boot_silent")
    /\ desktop' = ""
    /\ UNCHANGED <<temp_dirs, summary>>

\* "fallback" in entry.name, and the glob "*fallback.conf"
IsFallback(name) == name \in {"arch-fallback.conf"}

SilentCmd(entry) ==
    <<"sudo", "sed", "-i",
      "/options/s/$/ quiet loglevel=3 systemd.show_status=auto rd.udev.log_level=3/", entry>>

SilentCmds(names) == [i \in 1..Len(names) |-> SilentCmd(names[i])]

SelectEntries(listing, fallback) ==
    SelectSeq(listing, LAMBDA name : IsFallback(name) = fallback)


make_systemd_boot_silent ==
    /\ pc = "make_systemd_boot_silent"
    /\ \E dir \in EntryDirs :
       \E F \in FailChoices({SilentCmd(e) : e \in Range(dir.listing)}) :
        LET s0 == step([NewSt(F, {}) EXCEPT !.entries = dir], "Configuring systemd-boot")
            s1 == IF ~dir.exists THEN s0
                  ELSE try_each(s0, SilentCmds(SelectEntries(dir.listing, FALSE)), 1)
        IN  Commit(s1, "make_systemd_boot_silent", "change_loader_conf")
    /\ desktop' = ""
    /\ UNCHANGED <<temp_dirs, summary>>

SedLoader(expr) == <<"sudo", "sed", "-i", expr, "/boot/loader/loader.conf">>
GrepTimeoutCmd == <<"grep", "^timeout", "/boot/loader/loader.conf">>
EchoTimeoutCmd == <<"sudo", "bash", "-c", "echo 'timeout 3' >> /boot/loader/loader.conf">>
LoaderCmds ==
    {SedLoader("/^default /d"), SedLoader("1i default @saved"),
     SedLoader("s/^timeout.*/timeout 3/"), EchoTimeoutCmd,
     SedLoader("s/^[#]*console-mode[[:space:]]\\+.*/console-mode max/")}

change_loader_conf ==
    /\ pc = "change_loader_conf"
    /\ \E exists \in BOOLEAN, has_timeout \in BOOLEAN, F \in FailChoices(LoaderCmds) :
        LET Q  == IF has_timeout THEN {} ELSE {GrepTimeoutCmd}
            s0 == step(NewSt(F, Q), "Updating loader configuration")
            s1 == run_command(s0, SedLoader("/^default /d"), TRUE)
            s2 == run_command(s1, SedLoader("1i default @saved"), TRUE)
            s3 == run_command(s2, GrepTimeoutCmd, FALSE)
            s4 == IF s3.rc = 0
                  THEN run_command(s3, SedLoader("s/^timeout.*/timeout 3/"), TRUE)
                  ELSE run_command(s3, EchoTimeoutCmd, TRUE)
            s5 == run_command(s4, SedLoader("s/^[#]*console-mode[[:space:]]\\+.*/console-mode max/"), TRUE)
        IN  Commit(IF exists THEN except_CalledProcessError(s5) ELSE s0,
                   "change_loader_conf", "remove_fallback_entries")
    /\ desktop' = ""
    /\ UNCHANGED <<temp_dirs, summary>>

RmEntryCmd(entry) == <<"sudo", "rm", entry>>

RECURSIVE remove_each(_, _, _)
\* the loop of remove_fallback_entries: a removed entry leaves the directory
remove_each(st, names, i) ==
    IF i > Len(names) \/ st.raised # "none" THEN st
    ELSE LET s1 == run_command(st, RmEntryCmd(names[i]), TRUE)
             s2 == IF s1.raised = "none"
                   THEN [s1 EXCEPT !.entries.listing =
                                     SelectSeq(@, LAMBDA name : name # names[i])]
                   ELSE except_CalledProcessError(s1)
         IN  remove_each(s2, names, i + 1)

remove_fallback_entries ==
    /\ pc = "remove_fallback_entries"
    /\ \E F \in FailChoices({RmEntryCmd(e) : e \in Range(entries.listing)}) :
        LET s0 == step(NewSt(F, {}), "Removing fallback entries")
            s1 == IF ~entries.exists THEN s0
                  ELSE remove_each(s0, SelectEntries(entries.listing, TRUE), 1)
        IN  Commit(s1, "remove_fallback_entries", "setup_fastfetch_config")
    /\ desktop' = ""
    /\ UNCHANGED <<temp_dirs, summary>>

FastfetchCmd == <<"fastfetch", "--gen-config">>

setup_fastfetch_config ==
    /\ pc = "setup_fastfetch_config"
    /\ \E config_exists \in BOOLEAN, F \in FailChoices({FastfetchCmd}) :
        LET s0 == step(NewSt(F, {}), "Setting up fastfetch")
            s1 == IF "fastfetch" \in s0.absent \/ config_exists THEN s0
                  ELSE except_CalledProcessError(run_command(s0, FastfetchCmd, TRUE))
        IN  Commit(s1, "setup_fastfetch_config", "detect_and_install_gpu_drivers")
    /\ desktop' = ""
    /\ UNCHANGED <<temp_dirs, summary>>

LspciCmd == <<"lspci">>
Nvidia390Cmd ==
    <<"yay", "-S", "--noconfirm", "--needed", "nvidia-390xx-dkms", "nvidia-390xx-utils",
      "lib32-nvidia-390xx-utils">>
Nvidia340Cmd ==
    <<"yay", "-S", "--noconfirm", "--needed", "nvidia-340xx-dkms", "nvidia-340xx-utils",
      "lib32-nvidia-340xx-utils">>
\* the vendor markers the lspci output may hold, and the answers to the driver prompt
GpuValues == {"NVIDIA", "AMD", "Intel", "other"}
NvidiaChoices == {"1", "2", "3", "4", "5", ""}
GpuPackages ==
    <<"nvidia-dkms", "nvidia-utils", "xf86-video-nouveau", "mesa", "xf86-video-amdgpu",
      "xf86-video-intel">>

\* ArchInstaller._handle_nvidia_installation
handle_nvidia_installation(st, choice) ==
    IF choice = "1" THEN install_packages(st, <<"nvidia-dkms", "nvidia-utils">>)
    ELSE IF choice = "2" THEN run_command(st, Nvidia390Cmd, TRUE)
    ELSE IF choice = "3" THEN run_command(st, Nvidia340Cmd, TRUE)
    ELSE IF choice = "5" THEN st
    ELSE install_packages(st, <<"xf86-video-nouveau", "mesa">>)

detect_and_install_gpu_drivers ==
    /\ pc = "detect_and_install_gpu_drivers"
    /\ \E gpu_info \in GpuValues, choice \in NvidiaChoices,
          F \in FailChoices({LspciCmd, Nvidia390Cmd, Nvidia340Cmd}
                              \cup PacmanInstallCmds(GpuPackages)) :
        LET s0 == step(NewSt(F, {}), "Detecting GPU and installing drivers")
            s1 == run_command(s0, LspciCmd, TRUE)
            s2 == IF s1.raised = "CalledProcessError" THEN except_CalledProcessError(s1)
                  ELSE IF gpu_info = "NVIDIA" THEN handle_nvidia_installation(s1, choice)
                  ELSE IF gpu_info = "AMD"
                       THEN install_packages(s1, <<"xf86-video-amdgpu", "mesa">>)
                  ELSE IF gpu_info = "Intel"
                       THEN install_packages(s1, <<"mesa", "xf86-video-intel">>)
                  ELSE s1
        IN  Commit(s2, "detect_and_install_gpu_drivers", "setup_firewall_and_services")
    /\ desktop' = ""
    /\ UNCHANGED <<temp_dirs, summary>>

UfwCmds ==
    <<<<"sudo", "ufw", "enable">>, <<"sudo", "ufw", "default", "deny", "incoming">>,
      <<"sudo", "ufw", "default", "allow", "outgoing">>, <<"sudo", "ufw", "allow", "ssh">>>>
services ==
    <<"bluetooth.service", "cronie.service", "ufw.service", "fstrim.timer", "paccache.timer",
      "reflector.service", "reflector.timer", "sshd.service", "teamviewerd.service",
      "power-profiles-daemon.service">>
EnableCmd(service) == <<"sudo", "systemctl", "enable", "--now", service>>
EnableCmds == [i \in 1..Len(services) |-> EnableCmd(services[i])]

setup_firewall_and_services ==
    /\ pc = "setup_firewall_and_services"
    /\ \E F \in FailChoices(Range(UfwCmds) \cup Range(EnableCmds)
                              \cup PacmanInstallCmds(<<"ufw">>)) :
        LET s0 == step(NewSt(F, {}), "Setting up firewall and services")
            s1 == install_packages(s0, <<"ufw">>)
            s2 == run_all(s1, UfwCmds, 1)
            s3 == try_each(s2, EnableCmds, 1)
        IN  Commit(s3, "setup_firewall_and_services", "install_user_programs")
    /\ desktop' = ""
    /\ UNCHANGED <<temp_dirs, summary>>

\* ArchInstaller.detect_desktop_environment
detect_desktop_environment(de) ==
    IF "KDE" \in de THEN "KDE"
    ELSE IF "GNOME" \in de THEN "GNOME"
    ELSE IF "COSMIC" \in de THEN "COSMIC"
    ELSE "GENERIC"

\* install_user_programs: pacman_pkgs, lines 784-801
pacman_pkgs(mode, de) ==
    IF mode = "default"
    THEN PACMAN_PROGRAMS_DEFAULT \o ESSENTIAL_PROGRAMS_DEFAULT \o
            (IF de = "KDE" THEN KDE_INSTALL_PROGRAMS
             ELSE IF de = "GNOME" THEN GNOME_INSTALL_PROGRAMS
             ELSE IF de = "COSMIC" THEN COSMIC_INSTALL_PROGRAMS
             ELSE <<>>)
    ELSE PACMAN_PROGRAMS_MINIMAL \o ESSENTIAL_PROGRAMS_MINIMAL \o <<>>

\* aur_pkgs without the branch on the mode: a variant that
\* C10_ModeScopedSelection must reject
aur_pkgs_ignoring_mode(mode) == YAY_PROGRAMS_DEFAULT

\* install_user_programs: aur_pkgs, lines 786 and 795
aur_pkgs(mode) ==
    IF mode = "default" THEN YAY_PROGRAMS_DEFAULT ELSE YAY_PROGRAMS_MINIMAL

\* install_user_programs: the packages removed for the desktop, lines 803-811
remove_pkgs(de) ==
    IF de = "KDE" THEN KDE_REMOVE_PROGRAMS
    ELSE IF de = "GNOME" THEN GNOME_REMOVE_PROGRAMS
    ELSE IF de = "COSMIC" THEN COSMIC_REMOVE_PROGRAMS
    ELSE <<>>

\* install_user_programs: the lists install_flatpaks is called with, lines 816-831
\* (none under mode default on a desktop that is not KDE, GNOME or COSMIC)
flatpak_lists(mode, de) ==
    IF mode = "default"
    THEN IF de = "KDE" THEN <<FLATPAK_KDE>>
         ELSE IF de = "GNOME" THEN <<FLATPAK_GNOME>>
         ELSE IF de = "COSMIC" THEN <<FLATPAK_COSMIC>>
         ELSE <<>>
    ELSE IF de = "KDE" THEN <<FLATPAK_MINIMAL_KDE>>
         ELSE IF de = "GNOME" THEN <<FLATPAK_MINIMAL_GNOME>>
         ELSE IF de = "COSMIC" THEN <<FLATPAK_MINIMAL_COSMIC>>
         ELSE <<FLATPAK_MINIMAL_GENERIC>>

RemoveCmd(pkg) == <<"sudo", "pacman", "-Rns", "--noconfirm", pkg>>
RemoteListCmd == <<"flatpak", "remote-list">>
RemoteAddCmd ==
    <<"flatpak", "remote-add", "--if-not-exists", "flathub",
      "https://dl.flathub.org/repo/flathub.flatpakrepo">>
FlatpakUpdateCmd == <<"flatpak", "update", "-y">>
BashYayScript == <<"bash", "install_yay.sh">>

RECURSIVE remove_each_pkg(_, _, _)
\* the removal loops: run_command(..., check=False), the result unused
remove_each_pkg(st, pkgs, i) ==
    IF i > Len(pkgs) \/ st.raised # "none" THEN st
    ELSE remove_each_pkg(run_command(st, RemoveCmd(pkgs[i]), FALSE), pkgs, i + 1)

\* ArchInstaller.ensure_flatpak; has_flathub: the remote-list output names flathub
ensure_flatpak(st, has_flathub) ==
    LET s1 == IF "flatpak" \in st.absent THEN install_packages(st, <<"flatpak">>) ELSE st
        s2 == subprocess_run(s1, RemoteListCmd)
        s3 == IF s2.raised = "none" /\ ~(s2.rc = 0 /\ has_flathub)
              THEN run_command(s2, RemoteAddCmd, TRUE) ELSE s2
    IN  run_command(s3, FlatpakUpdateCmd, TRUE)

\* ensure_yay without the look for the binary
ensure_yay_unconditional(st) ==
    IF st.raised = "none" THEN run_command(st, BashYayScript, TRUE) ELSE st

\* ArchInstaller.ensure_yay
ensure_yay(st) ==
    IF st.raised = "none" /\ ~st.yay THEN run_command(st, BashYayScript, TRUE) ELSE st

RECURSIVE install_flatpak_lists(_, _, _)
install_flatpak_lists(st, lists, i) ==
    IF i > Len(lists) THEN st
    ELSE install_flatpak_lists(install_flatpaks(st, lists[i]), lists, i + 1)

\* the commands of install_user_programs the environment may fail
UserProgramCmds(mode, de) ==
    {RemoveCmd(p) : p \in Range(remove_pkgs(de))}
        \cup {RemoteListCmd, RemoteAddCmd, FlatpakUpdateCmd, FlatpakListCmd, BashYayScript}
        \cup PacmanInstallCmds(pacman_pkgs(mode, de) \o <<"flatpak">>)
        \cup YayInstallCmds(aur_pkgs(mode))
        \cup UNION {FlatpakInstallCmds(flatpak_lists(mode, de)[i]) :
                        i \in 1..Len(flatpak_lists(mode, de))}

install_user_programs ==
    /\ pc = "install_user_programs"
    /\ \E xdg \in DesktopValues, has_flathub \in BOOLEAN :
       \E F \in FailChoices(UserProgramCmds(install_mode, detect_desktop_environment(xdg))) :
        LET s0 == step(NewSt(F, {}), "Installing user programs (native Python)")
            de == detect_desktop_environment(xdg)
            mode == install_mode
            s1 == remove_each_pkg(s0, remove_pkgs(de), 1)
            s2 == install_packages(s1, pacman_pkgs(mode, de))
            s3 == ensure_flatpak(s2, has_flathub)
            s4 == install_flatpak_lists(s3, flatpak_lists(mode, de), 1)
            s5 == ensure_yay(s4)
            s6 == install_aur_packages(s5, aur_pkgs(mode))
        IN  /\ Commit(s6, "install_user_programs", "cleanup_and_optimize")
            /\ desktop' = de
    /\ UNCHANGED <<temp_dirs, summary>>

LsblkCmd == <<"lsblk", "-d", "-o", "rota">>
FstrimCmd == <<"sudo", "fstrim", "-v", "/">>
RmTmpCmds == <<<<"sudo", "rm", "-rf", "/tmp/*">>, <<"sudo", "rm", "-rf", "/tmp/yay">>>>
SyncCmd == <<"sync">>
\* what the two shutil.rmtree calls leave when the first or the second raises
RmtreeResults == {{}, {"configs", "scripts"}, {"scripts"}}

\* cleanup_and_optimize without the test of line 947: the directories are
\* removed whatever the error list holds
cleanup_and_optimize_unconditional ==
    /\ pc = "cleanup_and_optimize"
    /\ \E rotational_0 \in BOOLEAN, left \in RmtreeResults,
          F \in FailChoices({LsblkCmd, FstrimCmd, SyncCmd} \cup Range(RmTmpCmds)) :
        LET s0 == step(NewSt(F, {}), "Performing final cleanup and optimizations")
            s1 == run_command(s0, LsblkCmd, TRUE)
            is_ssd == s1.raised = "none" /\ rotational_0
            s2 == except_CalledProcessError(s1)
            s3 == IF is_ssd THEN run_command(s2, FstrimCmd, TRUE) ELSE s2
            s4 == run_all(s3, RmTmpCmds, 1)
            s5 == run_command(s4, SyncCmd, TRUE)
        IN  /\ Commit(s5, "cleanup_and_optimize", "print_summary")
            /\ temp_dirs' = IF s4.raised = "none" THEN left ELSE temp_dirs
    /\ desktop' = ""
    /\ UNCHANGED summary

\* ArchInstaller.cleanup_and_optimize
cleanup_and_optimize ==
    /\ pc = "cleanup_and_optimize"
    /\ \E rotational_0 \in BOOLEAN, left \in RmtreeResults,
          F \in FailChoices({LsblkCmd, FstrimCmd, SyncCmd} \cup Range(RmTmpCmds)) :
        LET s0 == step(NewSt(F, {}), "Performing final cleanup and optimizations")
            s1 == run_command(s0, LsblkCmd, TRUE)
            is_ssd == s1.raised = "none" /\ rotational_0
            s2 == except_CalledProcessError(s1)
            s3 == IF is_ssd THEN run_command(s2, FstrimCmd, TRUE) ELSE s2
            s4 == run_all(s3, RmTmpCmds, 1)
            s5 == run_command(s4, SyncCmd, TRUE)
        IN  /\ Commit(s5, "cleanup_and_optimize", "print_summary")
            /\ temp_dirs' = IF s4.raised = "none" /\ s4.errors = <<>>
                            THEN left ELSE temp_dirs
    /\ desktop' = ""
    /\ UNCHANGED summary

\* ArchInstaller.print_summary: the three lists it reads
print_summary ==
    /\ pc = "print_summary"
    /\ summary' = [printed |-> TRUE, installed |-> installed_packages,
                   removed |-> removed_packages, errors |-> errors]
    /\ pc' = "prompt_reboot"
    /\ trace' = Append(trace, "print_summary")
    /\ calls' = <<>>
    /\ executed' = <<>>
    /\ desktop' = ""
    /\ UNCHANGED <<env_vars, file_vars, gui_vars, absent, yay_present, install_mode, current_step,
                   installed_packages, removed_packages, errors, exit_code, sudo_thread,
                   sudo_check_failed, announced, failed, succeeded, entries, temp_dirs>>

RebootCmd == <<"sudo", "reboot">>

\* ArchInstaller.prompt_reboot, and the return of main: an answer that is
\* neither yes nor no asks again
prompt_reboot ==
    /\ pc = "prompt_reboot"
    /\ \E choice \in {"y", "n"}, F \in FailChoices({RebootCmd}) :
        LET s0 == NewSt(F, {})
            s1 == IF choice = "y" THEN run_command(s0, RebootCmd, TRUE) ELSE s0
        IN  Commit(s1, "prompt_reboot", "done")
    /\ desktop' = ""
    /\ UNCHANGED <<temp_dirs, summary>>

(* ---------------------------------------------------------------------- *)
(* The Qt front-end, src/archinstaller.py.                                 *)
(* ---------------------------------------------------------------------- *)
cli_vars == <<absent, yay_present, install_mode, current_step, installed_packages,
              removed_packages, errors, exit_code, sudo_thread, sudo_check_failed, announced,
              trace, failed,
              calls, executed, succeeded, entries, temp_dirs, summary, desktop>>

\* a line of the subprocess is a sequence of tokens; " " stands for white space,
\* "[N]" for that substring, any other token for text holding no marker
Whitespace == {" "}

\* the number of lines the worker reads from one subprocess
MaxLines == 2

\* the lines the subprocess may print
LineValues ==
    { <<" ", "[2]", "Installing helper utilities", " ">>,
      <<"[19]", "[1]">>,
      <<"[20]", "x">>,
      <<"x", " ">> }

\* str.strip(): the line without its leading and trailing white space
RECURSIVE lstrip(_)
lstrip(line) ==
    IF line # <<>> /\ Head(line) \in Whitespace THEN lstrip(Tail(line)) ELSE line

RECURSIVE rstrip(_)
rstrip(line) ==
    IF line # <<>> /\ line[Len(line)] \in Whitespace
    THEN rstrip(SubSeq(line, 1, Len(line) - 1))
    ELSE line

strip(line) == rstrip(lstrip(line))

\* the markers InstallerThread.run looks for, in the order of its if/elif chain
MarkerToken ==
    <<"[1]", "[2]", "[3]", "[4]", "[5]", "[6]", "[7]", "[8]", "[9]", "[10]",
      "[11]", "[12]", "[13]", "[14]", "[15]", "[16]", "[17]", "[18]", "[19]">>

\* the description each branch of the chain emits
MarkerDescription ==
    <<"Checking prerequisites", "Installing helper utilities", "Configuring Pacman",
      "Updating system", "Setting up sudo", "Installing CPU microcode",
      "Installing kernel headers", "Generating locales", "Setting up ZSH",
      "Installing Starship", "Running custom scripts", "Configuring boot",
      "Setting up Fastfetch", "Configuring firewall", "Installing GPU drivers",
      "Setting up maintenance", "Cleaning up", "Printing summary",
      "Finalizing installation">>

\* `"[N]" in line`
Contains(line, N) == \E i \in 1..Len(line) : line[i] = MarkerToken[N]

\* the branch of the if/elif chain a line takes: the number of the first marker
\* of the chain it holds, 0 when it holds none (the chain has no else)
Branch_with_else(line) ==
    IF \E N \in 1..Len(MarkerToken) : Contains(line, N)
    THEN CHOOSE N \in 1..Len(MarkerToken) :
             Contains(line, N) /\ \A M \in 1..(N - 1) : ~Contains(line, M)
    ELSE 1

Branch(line) ==
    IF \E N \in 1..Len(MarkerToken) : Contains(line, N)
    THEN CHOOSE N \in 1..Len(MarkerToken) :
             Contains(line, N) /\ \A M \in 1..(N - 1) : ~Contains(line, M)
    ELSE 0

\* output_received.emit(text) for the line with the given number
OutputReceived(n, text) ==
    [signal |-> "output_received", line |-> n, text |-> text, code |-> 0,
     description |-> ""]

\* progress_updated.emit(N, description) for the line with the given number
ProgressUpdated(n, N) ==
    [signal |-> "progress_updated", line |-> n, text |-> <<>>, code |-> N,
     description |-> MarkerDescription[N]]

\* finished.emit(code)
Finished(code) ==
    [signal |-> "finished", line |-> 0, text |-> <<>>, code |-> code,
     description |-> ""]

\* a loop body that tracks the progress before it emits the text
LineEmissions_progress_first(n, line) ==
    (IF Branch(strip(line)) = 0 THEN <<>>
     ELSE <<ProgressUpdated(n, Branch(strip(line)))>>)
    \o <<OutputReceived(n, strip(line))>>

\* the body of `for line in process.stdout` for one line: what it emits
LineEmissions(n, line) ==
    <<OutputReceived(n, strip(line))>>
    \o (IF Branch(strip(line)) = 0 THEN <<>>
        ELSE <<ProgressUpdated(n, Branch(strip(line)))>>)

\* self.current_step after the body ran for one line
StepAfter(before, line) ==
    IF Branch(strip(line)) = 0 THEN before ELSE Branch(strip(line))

\* how a run of install.sh ends: its exit code, and whether its error list was
\* non-empty
InstallShOutcomes ==
    [returncode : {0, 1}, errors : BOOLEAN]

\* start_installation without the setEnabled(False) of line 298
start_installation_no_disable ==
    /\ pc = "gui"
    /\ start_button
    /\ IF euid = 0
       THEN /\ dialog' = "root_error"
            /\ UNCHANGED <<start_button, installer_thread, thread_current_step, process,
                           stdout_lines, emitted, output_text>>
       ELSE IF ~pacman_present
       THEN /\ dialog' = "pacman_error"
            /\ UNCHANGED <<start_button, installer_thread, thread_current_step, process,
                           stdout_lines, emitted, output_text>>
       ELSE /\ start_button' = start_button
            /\ installer_thread' = "running"
            /\ thread_current_step' = 0
            /\ process' = NoProcess
            /\ stdout_lines' = <<>>
            /\ emitted' = <<>>
            /\ output_text' = <<>>
            /\ dialog' = dialog
    /\ UNCHANGED <<env_vars, file_vars, cli_vars, pc, finished_signal, pending, progress_bar,
                   progress_label>>

\* ArchInstallerGUI.start_installation: the slot of the start button
start_installation ==
    /\ pc = "gui"
    /\ start_button
    /\ IF euid = 0
       THEN /\ dialog' = "root_error"
            /\ UNCHANGED <<start_button, installer_thread, thread_current_step, process,
                           stdout_lines, emitted, output_text>>
       ELSE IF ~pacman_present
       THEN /\ dialog' = "pacman_error"
            /\ UNCHANGED <<start_button, installer_thread, thread_current_step, process,
                           stdout_lines, emitted, output_text>>
       ELSE /\ start_button' = FALSE
            /\ installer_thread' = "running"
            /\ thread_current_step' = 0
            /\ process' = NoProcess
            /\ stdout_lines' = <<>>
            /\ emitted' = <<>>
            /\ output_text' = <<>>
            /\ dialog' = dialog
    /\ UNCHANGED <<env_vars, file_vars, cli_vars, pc, finished_signal, pending, progress_bar,
                   progress_label>>

\* the except branch without its finished.emit(1)
InstallerThread_except_without_finished ==
    /\ emitted' = Append(emitted, OutputReceived(0, <<"Error:">>))
    /\ pending' = Append(pending, OutputReceived(0, <<"Error:">>))
    /\ finished_signal' = finished_signal
    /\ installer_thread' = "finished"

\* the except branch of InstallerThread.run
InstallerThread_except ==
    /\ emitted' = emitted \o <<OutputReceived(0, <<"Error:">>),
                               Finished(1)>>
    /\ pending' = Append(pending, OutputReceived(0, <<"Error:">>))
    /\ finished_signal' = Append(finished_signal, 1)
    /\ installer_thread' = "finished"

\* InstallerThread.run, subprocess.Popen: the subprocess starts, or Popen raises
InstallerThread_Popen ==
    /\ pc = "gui"
    /\ installer_thread = "running"
    /\ process.state = "none"
    /\ \E raised \in BOOLEAN :
        IF raised
        THEN /\ InstallerThread_except
             /\ UNCHANGED process
        ELSE /\ process' = [process EXCEPT !.state = "running"]
             /\ UNCHANGED <<emitted, pending, finished_signal, installer_thread>>
    /\ UNCHANGED <<env_vars, file_vars, cli_vars, pc, start_button, dialog, thread_current_step,
                   stdout_lines, output_text, progress_bar, progress_label>>

\* InstallerThread.run, one turn of `for line in process.stdout`
InstallerThread_line ==
    /\ pc = "gui"
    /\ installer_thread = "running"
    /\ process.state = "running"
    /\ Len(stdout_lines) < MaxLines
    /\ \E line \in LineValues :
        /\ stdout_lines' = Append(stdout_lines, line)
        /\ emitted' = emitted \o LineEmissions(Len(stdout_lines) + 1, line)
        /\ pending' = pending \o LineEmissions(Len(stdout_lines) + 1, line)
        /\ thread_current_step' = StepAfter(thread_current_step, line)
    /\ UNCHANGED <<env_vars, file_vars, cli_vars, pc, start_button, dialog, installer_thread,
                   process, finished_signal, output_text, progress_bar, progress_label>>

\* InstallerThread.run, the end: the output is exhausted, process.wait() and
\* finished.emit(process.returncode); or reading the output raised
InstallerThread_run ==
    /\ pc = "gui"
    /\ installer_thread = "running"
    /\ process.state = "running"
    /\ \E raised \in BOOLEAN, outcome \in InstallShOutcomes :
        /\ process' = [state |-> "exited", returncode |-> outcome.returncode,
                       errors |-> outcome.errors]
        /\ IF raised
           THEN InstallerThread_except
           ELSE /\ emitted' = Append(emitted, Finished(outcome.returncode))
                /\ finished_signal' = Append(finished_signal, outcome.returncode)
                /\ installer_thread' = "finished"
                /\ UNCHANGED pending
    /\ UNCHANGED <<env_vars, file_vars, cli_vars, pc, start_button, dialog, thread_current_step,
                   stdout_lines, output_text, progress_bar, progress_label>>

\* ArchInstallerGUI.append_output: the slot of output_received
append_output ==
    /\ pc = "gui"
    /\ pending # <<>>
    /\ Head(pending).signal = "output_received"
    /\ output_text' = Append(output_text, Head(pending).text)
    /\ pending' = Tail(pending)
    /\ UNCHANGED <<env_vars, file_vars, cli_vars, pc, start_button, dialog, installer_thread,
                   process, finished_signal, thread_current_step, stdout_lines, emitted,
                   progress_bar, progress_label>>

\* ArchInstallerGUI.update_progress: the slot of progress_updated
update_progress ==
    /\ pc = "gui"
    /\ pending # <<>>
    /\ Head(pending).signal = "progress_updated"
    /\ progress_bar' = Head(pending).code
    /\ progress_label' = Head(pending).description
    /\ pending' = Tail(pending)
    /\ UNCHANGED <<env_vars, file_vars, cli_vars, pc, start_button, dialog, installer_thread,
                   process, finished_signal, thread_current_step, stdout_lines, emitted,
                   output_text>>

\* ArchInstallerGUI.installation_finished: the slot of finished; the event loop
\* delivers the worker's emissions in the order they were made
installation_finished ==
    /\ pc = "gui"
    /\ finished_signal # <<>>
    /\ pending = <<>>
    /\ start_button' = TRUE
    /\ dialog' = IF Head(finished_signal) = 0 THEN "success" ELSE "failure"
    /\ output_text' = Append(output_text,
                             IF Head(finished_signal) = 0
                             THEN <<"Installation completed successfully!">>
                             ELSE <<"Installation failed!">>)
    /\ finished_signal' = Tail(finished_signal)
    /\ UNCHANGED <<env_vars, file_vars, cli_vars, pc, installer_thread, process,
                   thread_current_step, stdout_lines, emitted, pending, progress_bar,
                   progress_label>>

\* ArchInstallerGUI.closeEvent: the window is asked to close.  An accepted
\* close ends the event loop and with it the front-end; terminate() ends the
\* worker thread and nothing else
closeEvent ==
    /\ pc = "gui"
    /\ IF installer_thread = "running"
       THEN \E reply \in {"Yes", "No"} :
              IF reply = "Yes"
              THEN /\ installer_thread' = "terminated"
                   /\ pc' = "closed"
              ELSE UNCHANGED <<installer_thread, pc>>
       ELSE /\ pc' = "closed"
            /\ UNCHANGED installer_thread
    /\ UNCHANGED <<env_vars, file_vars, cli_vars, start_button, dialog, finished_signal,
                   thread_current_step, process, stdout_lines, emitted, pending,
                   output_text, progress_bar, progress_label>>

(* ---------------------------------------------------------------------- *)
(* The file mutations of the steps, as functions of the file's content.    *)
(* A file is a sequence of lines, a line a sequence of tokens; "#" is the  *)
(* comment sign.                                                           *)
(* ---------------------------------------------------------------------- *)
\* the longest file the mutations are applied to
MaxFileLines == 3

\* the files of at most MaxFileLines lines taken from a set of lines
Files(lines) == UNION {[1..n -> lines] : n \in 0..MaxFileLines}

\* lines of /etc/pacman.conf
PacmanConfLines ==
    { <<"#", "Color">>, <<"Color">>, <<"#", "VerbosePkgLists">>,
      <<"#", "[multilib]">>, <<"#", "Include">>, <<"[multilib]">> }

\* lines of a boot entry
EntryLines ==
    { <<"title", "Arch Linux">>, <<"linux", "/vmlinuz-linux">>,
      <<"options", "root=LABEL=arch", "rw">> }

\* the regular expression ^prefix matches the line
StartsWith(line, prefix) ==
    Len(line) >= Len(prefix) /\ SubSeq(line, 1, Len(prefix)) = prefix

\* sed -i s/^#word/word/
sed_uncomment(f, word) ==
    [i \in 1..Len(f) |-> IF StartsWith(f[i], <<"#", word>>) THEN Tail(f[i]) ELSE f[i]]

RECURSIVE sed_append(_, _, _)
\* sed -i "/^word/a text": text becomes a new line after each line ^word matches
sed_append(f, word, text) ==
    IF f = <<>> THEN <<>>
    ELSE <<Head(f)>>
         \o (IF StartsWith(Head(f), <<word>>) THEN <<text>> ELSE <<>>)
         \o sed_append(Tail(f), word, text)

RECURSIVE sed_range_uncomment(_, _, _, _)
\* sed -i "/^#first/,/^#last/s/^#//": the range opens at a line ^#first matches
\* and closes at the next line after it that ^#last matches
sed_range_uncomment(f, first, last, inside) ==
    IF f = <<>> THEN <<>>
    ELSE LET line == Head(f)
             opens == ~inside /\ StartsWith(line, <<"#", first>>)
             closes == inside /\ StartsWith(line, <<"#", last>>)
             affected == inside \/ opens
         IN  <<IF affected /\ StartsWith(line, <<"#">>) THEN Tail(line) ELSE line>>
             \o sed_range_uncomment(Tail(f), first, last, affected /\ ~closes)

\* the text of the file contains the token / the token right after a "#"
HasToken(f, token) == \E i \in 1..Len(f) : \E j \in 1..Len(f[i]) : f[i][j] = token
HasCommented(f, token) ==
    \E i \in 1..Len(f) : \E j \in 1..(Len(f[i]) - 1) :
        f[i][j] = "#" /\ f[i][j + 1] = token

\* ArchInstaller._is_multilib_enabled
is_multilib_enabled(f) == HasToken(f, "[multilib]") /\ ~HasCommented(f, "[multilib]")

\* what the commands of configure_pacman, all succeeding, make of pacman.conf
ConfigurePacmanFile(f) ==
    LET f1 == sed_uncomment(f, "Color")
        f2 == sed_uncomment(f1, "VerbosePkgLists")
        f3 == sed_uncomment(f2, "ParallelDownloads")
        f4 == sed_append(f3, "Color", <<"ILoveCandy">>)
    IN  IF ~is_multilib_enabled(f4)
        THEN sed_range_uncomment(f4, "[multilib]", "Include", FALSE)
        ELSE f4

\* the words make_systemd_boot_silent adds to an options line
SilentOptions == <<"quiet", "loglevel=3", "systemd.show_status=auto", "rd.udev.log_level=3">>

\* sed -i "/options/s/$/ quiet .../": what SilentCmd makes of a boot entry
SilentEntryFile(f) ==
    [i \in 1..Len(f) |->
        IF \E j \in 1..Len(f[i]) : f[i][j] = "options"
        THEN f[i] \o SilentOptions ELSE f[i]]

\* lines of /boot/loader/loader.conf
LoaderConfLines ==
    { <<"default", "arch.conf">>, <<"timeout", "5">>, <<"#", "console-mode", "keep">>,
      <<"editor", "no">> }

\* the regular expression "^word " matches the line: the word and a blank after it
StartsWithWord(line, word) == Len(line) >= 2 /\ line[1] = word

\* sed -i "/^word /d": the lines the expression matches are deleted
sed_delete(f, word) == SelectSeq(f, LAMBDA line : ~StartsWithWord(line, word))

\* sed -i "1i text": text becomes a new line before line 1; a file without
\* lines has no line 1 and stays as it is
sed_insert_first(f, text) == IF f = <<>> THEN <<>> ELSE <<text>> \o f

\* grep ^timeout: exit status 0 when a line matches
grep_timeout(f) == \E i \in 1..Len(f) : StartsWith(f[i], <<"timeout">>)

\* sed -i "s/^timeout.*/timeout 3/"
sed_timeout(f) ==
    [i \in 1..Len(f) |-> IF StartsWith(f[i], <<"timeout">>) THEN <<"timeout", "3">> ELSE f[i]]

\* bash -c "echo 'timeout 3' >> loader.conf"
echo_append(f, text) == Append(f, text)

\* sed -i "s/^[#]*console-mode[[:space:]]\+.*/console-mode max/"
sed_console_mode(f) ==
    [i \in 1..Len(f) |->
        IF \/ StartsWithWord(f[i], "console-mode")
           \/ StartsWith(f[i], <<"#">>) /\ StartsWithWord(Tail(f[i]), "console-mode")
        THEN <<"console-mode", "max">> ELSE f[i]]

\* what the commands of change_loader_conf, all succeeding, make of loader.conf
ChangeLoaderConfFile(f) ==
    LET f1 == sed_delete(f, "default")
        f2 == sed_insert_first(f1, <<"default", "@saved">>)
        f3 == IF grep_timeout(f2) THEN sed_timeout(f2)
              ELSE echo_append(f2, <<"timeout", "3">>)
    IN  sed_console_mode(f3)

\* the file mutations of configure_pacman, applied to a pacman.conf
configure_pacman_file ==
    /\ file_kind = "pacman.conf"
    /\ applications < 2
    /\ file' = ConfigurePacmanFile(file)
    /\ applications' = applications + 1
    /\ UNCHANGED <<env_vars, cli_vars, gui_vars, pc, file_kind>>

\* the file mutation of make_systemd_boot_silent, applied to one boot entry
make_systemd_boot_silent_file ==
    /\ file_kind = "entry"
    /\ applications < 2
    /\ file' = SilentEntryFile(file)
    /\ applications' = applications + 1
    /\ UNCHANGED <<env_vars, cli_vars, gui_vars, pc, file_kind>>

\* the file mutations of change_loader_conf, applied to a loader.conf
change_loader_conf_file ==
    /\ file_kind = "loader.conf"
    /\ applications < 2
    /\ file' = ChangeLoaderConfFile(file)
    /\ applications' = applications + 1
    /\ UNCHANGED <<env_vars, cli_vars, gui_vars, pc, file_kind>>

(* ---------------------------------------------------------------------- *)
(* The specification.                                                      *)
(* ---------------------------------------------------------------------- *)
Next ==
    \/ main_begin
    \/ keep_sudo_alive
    \/ check_prerequisites
    \/ set_sudo_pwfeedback
    \/ install_helper_utils
    \/ configure_pacman
    \/ update_mirrors_and_system
    \/ install_cpu_microcode
    \/ install_kernel_headers_for_all
    \/ generate_locales
    \/ setup_zsh
    \/ install_starship
    \/ run_custom_scripts
    \/ make_systemd_boot_silent
    \/ change_loader_conf
    \/ remove_fallback_entries
    \/ setup_fastfetch_config
    \/ detect_and_install_gpu_drivers
    \/ setup_firewall_and_services
    \/ install_user_programs
    \/ cleanup_and_optimize
    \/ print_summary
    \/ prompt_reboot
    \/ start_installation
    \/ InstallerThread_Popen
    \/ InstallerThread_line
    \/ InstallerThread_run
    \/ append_output
    \/ update_progress
    \/ installation_finished
    \/ closeEvent

Spec == Init /\ [][Next]_vars

\* Every external command terminates, so the pipeline thread, which blocks on
\* nothing else, always takes its next step.  This is weak fairness of the
\* operations of main; for those after main_begin it is written out: one of
\* them is enabled exactly while the program is install.py and has not ended,
\* and their steps are the steps that change pc.
MainFairness ==
    /\ WF_vars(main_begin)
    /\ \/ []<>(program # "install.py" \/ Ended)
       \/ []<><<pc' # pc>>_vars

FairSpec == Spec /\ MainFairness

\* the files the mutations start from
FileInit ==
    /\ program = "install.py"
    /\ euid = 1000
    /\ pacman_present = TRUE
    /\ sudo_valid = TRUE
    /\ network = TRUE
    /\ absent = {}
    /\ yay_present = FALSE
    /\ InitConfig
    /\ file_kind \in {"pacman.conf", "entry", "loader.conf"}
    /\ file \in CASE file_kind = "pacman.conf" -> Files(PacmanConfLines)
                  [] file_kind = "entry" -> Files(EntryLines)
                  [] file_kind = "loader.conf" -> Files(LoaderConfLines)
    /\ applications = 0

FileNext ==
    \/ configure_pacman_file
    \/ make_systemd_boot_silent_file
    \/ change_loader_conf_file

\* a step's file mutations applied, and applied again, to a file
FileSpec == FileInit /\ [][FileNext]_vars

-----------------------------------------------------------------------------
\* Properties of the package installers, checked on the calls of the latest
\* operation (calls) and on the run's history (announced, trace, failed).

\* the identifier an install command names: its last word
Target(command) == command[Len(command)]

\* the identifiers of a call that the installed-check did not report present, in order
NotPresent(c) == SelectSeq(c.requested, LAMBDA pkg : pkg \notin c.present)

\* the entries a call appended to the error list
NewErrors(c) == SubSeq(c.err1, Len(c.err0) + 1, Len(c.err1))

\* C1: an identifier the installed-check reports present gets no install command;
\* a call whose identifiers are all present issues no install command and leaves
\* the installed list and the error list as they were.
C1_PresentNeverInstalled ==
    \A i \in 1..Len(calls) :
        LET c == calls[i]
        IN  /\ \A j \in 1..Len(c.cmds) : Target(c.cmds[j]) \notin c.present
            /\ Range(c.attempted) \cap c.present = {}
            /\ Range(c.requested) \subseteq c.present
                   => /\ c.cmds = <<>>
                      /\ c.inst1 = c.inst0
                      /\ c.err1 = c.err0

\* a call with several identifiers, all of them present
C1_Witness ==
    \E i \in 1..Len(calls) :
        /\ Len(calls[i].requested) >= 2
        /\ Range(calls[i].requested) \subseteq calls[i].present
        /\ calls[i].queries >= 2

\* C2: the announced step indices are 1, 2, 3, ... in order, one more at each
\* announcement, and no operation of the pipeline is entered twice.
C2_StepIndices ==
    /\ \A i \in 1..Len(announced) : announced[i].index = i
    /\ current_step = Len(announced) + 1
    /\ \A i, j \in 1..Len(trace) : trace[i] = trace[j] => i = j

\* a run that went through the whole pipeline
C2_Witness == pc = "done" /\ Len(announced) = 18

\* the operations main runs after the prerequisite check
LaterSteps == Range(trace) \ {"main", "check_prerequisites"}

\* C3: as stated: when exactly one external command of a step has failed, the
\* failure does not leave the step; the run is never ended by it.
C3_SingleFailureContained ==
    (program = "install.py" /\ network /\ Len(failed) = 1) => pc # "crashed"

\* the install commands of the three backends
IsInstallCmd(command) ==
    \/ command = PacmanInstallCmd(Target(command))
    \/ command = YayInstallCmd(Target(command))
    \/ command = FlatpakInstallCmd(Target(command))

\* C4: as stated, for the install commands: a run that reaches the summary after
\* exactly one command failed, an install command, lists that failure exactly once.
C4_SingleFailureListedOnce ==
    (summary.printed /\ network /\ Len(failed) = 1 /\ IsInstallCmd(failed[1]))
        => Len(summary.errors) = 1

C6_MissingPrerequisiteAborts ==
    (program = "install.py" /\ euid # 0 /\ (~pacman_present \/ ~network)) =>
        /\ LaterSteps = {}
        /\ Len(announced) <= 1
        /\ pc \notin {"crashed", "done"}

\* C7: when the credential validation fails the run exits at once with a non-zero
\* code: no step is announced, the keep-alive thread is never started, and the
\* installed list and the error list stay empty.
C7_CredentialFailureAborts ==
    (program = "install.py" /\ ~sudo_valid) =>
        /\ sudo_thread = "none"
        /\ announced = <<>>
        /\ installed_packages = <<>> /\ errors = <<>>
        /\ failed = <<>>
        /\ pc \in {"main", "exited"}
        /\ pc = "exited" => (exit_code = 1 /\ trace = <<"main">>)

\* a run ended by the failed credential validation
C7_Witness == program = "install.py" /\ ~sudo_valid /\ pc = "exited" /\ exit_code = 1

\* the message an installer records for an identifier whose command failed
FailureMsg(fn) ==
    CASE fn = "install_packages" -> "Failed to install"
      [] fn = "install_aur_packages" -> "Failed to install AUR"
      [] fn = "install_flatpaks" -> "Failed to install Flatpak"

\* the identifiers of a call whose install command returned non-zero
FailedIds(c) == Range(c.attempted) \ Range(c.succeeded)

C9_BatchedInstall ==
    \A i \in 1..Len(calls) :
        LET c == calls[i]
            k == Len(NotPresent(c))
        IN  k >= 1 =>
                IF c.fn = "install_flatpaks" THEN Len(c.cmds) = k ELSE Len(c.cmds) = 1

\* C9, amended: each of the three installers issues exactly one install command
\* per identifier not reported present, naming that identifier alone, in the
\* order of the list: k identifiers, k commands.
C9_OneCommandPerIdentifier ==
    \A i \in 1..Len(calls) :
        LET c == calls[i]
        IN  /\ c.attempted = NotPresent(c)
            /\ Len(c.cmds) = Len(NotPresent(c))
            /\ \A j \in 1..Len(c.cmds) :
                   /\ IsInstallCmd(c.cmds[j])
                   /\ Target(c.cmds[j]) = c.attempted[j]
                   /\ c.fn = "install_packages" => c.cmds[j] = PacmanInstallCmd(c.attempted[j])
                   /\ c.fn = "install_aur_packages" => c.cmds[j] = YayInstallCmd(c.attempted[j])
                   /\ c.fn = "install_flatpaks" => c.cmds[j] = FlatpakInstallCmd(c.attempted[j])

\* an AUR call and a Flatpak call of one operation, each with two commands for
\* its two identifiers not reported present
C9_Witness ==
    \A fn \in {"install_aur_packages", "install_flatpaks"} :
        \E i \in 1..Len(calls) :
            /\ calls[i].fn = fn
            /\ Len(NotPresent(calls[i])) = 2
            /\ Len(calls[i].cmds) = 2

\* the identifiers the configuration declares for the default mode and not for
\* the minimal mode, per backend and desktop
DeclaredOnlyDefault(fn, de) ==
    CASE fn = "install_packages" ->
             (Range(PACMAN_PROGRAMS_DEFAULT) \cup Range(ESSENTIAL_PROGRAMS_DEFAULT)
                \cup (IF de = "KDE" THEN Range(KDE_INSTALL_PROGRAMS)
                      ELSE IF de = "GNOME" THEN Range(GNOME_INSTALL_PROGRAMS)
                      ELSE IF de = "COSMIC" THEN Range(COSMIC_INSTALL_PROGRAMS) ELSE {}))
             \ (Range(PACMAN_PROGRAMS_MINIMAL) \cup Range(ESSENTIAL_PROGRAMS_MINIMAL))
      [] fn = "install_aur_packages" ->
             Range(YAY_PROGRAMS_DEFAULT) \ Range(YAY_PROGRAMS_MINIMAL)
      [] fn = "install_flatpaks" ->
             (IF de = "KDE" THEN Range(FLATPAK_KDE) \ Range(FLATPAK_MINIMAL_KDE)
              ELSE IF de = "GNOME" THEN Range(FLATPAK_GNOME) \ Range(FLATPAK_MINIMAL_GNOME)
              ELSE IF de = "COSMIC" THEN Range(FLATPAK_COSMIC) \ Range(FLATPAK_MINIMAL_COSMIC)
              ELSE {})

\* the identifiers declared for the minimal mode and not for the default mode
DeclaredOnlyMinimal(fn, de) ==
    CASE fn = "install_packages" ->
             (Range(PACMAN_PROGRAMS_MINIMAL) \cup Range(ESSENTIAL_PROGRAMS_MINIMAL))
             \ (Range(PACMAN_PROGRAMS_DEFAULT) \cup Range(ESSENTIAL_PROGRAMS_DEFAULT))
      [] fn = "install_aur_packages" ->
             Range(YAY_PROGRAMS_MINIMAL) \ Range(YAY_PROGRAMS_DEFAULT)
      [] fn = "install_flatpaks" ->
             (IF de = "KDE" THEN Range(FLATPAK_MINIMAL_KDE) \ Range(FLATPAK_KDE)
              ELSE IF de = "GNOME" THEN Range(FLATPAK_MINIMAL_GNOME) \ Range(FLATPAK_GNOME)
              ELSE IF de = "COSMIC" THEN Range(FLATPAK_MINIMAL_COSMIC) \ Range(FLATPAK_COSMIC)
              ELSE Range(FLATPAK_MINIMAL_GENERIC))

\* C10: the identifiers the user-program step selects under the minimal mode
\* include none listed only under the default mode, and those it selects under
\* the default mode none listed only under the minimal mode, for the pacman,
\* the AUR and the Flatpak backend alike.
C10_ModeScopedSelection ==
    desktop # "" =>
        \A i \in 1..Len(calls) :
            LET c == calls[i]
            IN  /\ install_mode = "minimal" =>
                       Range(c.requested) \cap DeclaredOnlyDefault(c.fn, desktop) = {}
                /\ install_mode = "default" =>
                       Range(c.requested) \cap DeclaredOnlyMinimal(c.fn, desktop) = {}

\* a minimal run and the selections of its three backends, with identifiers
\* that only the default mode lists
C10_Witness ==
    /\ desktop = "KDE" /\ install_mode = "minimal"
    /\ \A fn \in {"install_packages", "install_aur_packages", "install_flatpaks"} :
           /\ DeclaredOnlyDefault(fn, desktop) # {}
           /\ \E i \in 1..Len(calls) : calls[i].fn = fn /\ calls[i].requested # <<>>

\* C11: as stated: on a desktop outside KDE, GNOME and COSMIC, in every install
\* mode, the user-programs step that runs to its end has selected the generic
\* Flatpak list, which is not empty.
C11_GenericFallbackSelected ==
    (desktop = "GENERIC" /\ pc = "cleanup_and_optimize") =>
        \E i \in 1..Len(calls) :
            /\ calls[i].fn = "install_flatpaks"
            /\ calls[i].requested = FLATPAK_MINIMAL_GENERIC
            /\ calls[i].requested # <<>>

\* what main calls, in order (src/install.py lines 1008-1047)
Pipeline ==
    <<"main", "check_prerequisites", "set_sudo_pwfeedback", "install_packages",
      "configure_pacman", "update_mirrors_and_system", "install_cpu_microcode",
      "install_kernel_headers_for_all", "generate_locales", "setup_zsh", "install_starship",
      "run_custom_scripts", "make_systemd_boot_silent", "change_loader_conf",
      "remove_fallback_entries", "setup_fastfetch_config", "detect_and_install_gpu_drivers",
      "setup_firewall_and_services", "install_user_programs", "cleanup_and_optimize",
      "print_summary", "prompt_reboot">>

\* what the steps announce, in the order of main
StepDescriptions ==
    <<"Checking system prerequisites", "Enabling sudo password feedback",
      "Configuring Pacman", "Updating mirrorlist and system", "Installing CPU microcode",
      "Installing kernel headers", "Generating locales", "Setting up ZSH",
      "Installing Starship prompt", "Running custom scripts", "Configuring systemd-boot",
      "Updating loader configuration", "Removing fallback entries", "Setting up fastfetch",
      "Detecting GPU and installing drivers", "Setting up firewall and services",
      "Installing user programs (native Python)",
      "Performing final cleanup and optimizations">>

C13_NoFailureDiscarded ==
    (summary.printed /\ pc = "prompt_reboot") =>
        \A i \in 1..Len(failed) :
            failed[i] = RemoveCmd(Target(failed[i])) =>
                \E j \in 1..Len(summary.errors) :
                    \E k \in 1..Len(summary.errors[j]) :
                        summary.errors[j][k] = Target(failed[i])

\* C14: as stated, for the runs in which no command fails: when the summary is
\* printed, every identifier whose install command succeeded during the run,
\* through pacman, the AUR helper or Flatpak, is in the installed list the
\* summary presents.
C14_SummaryListsInstalled ==
    (summary.printed /\ failed = <<>>) => succeeded \subseteq Range(summary.installed)

\* C15: as stated: a run that has printed its summary ends with exit code 0.
C15_SummaryRunExitsZero ==
    (summary.printed /\ Ended) => exit_code = 0

\* C17: as stated: no exception leaves main: whatever escapes a step is caught
\* by a guard around the step sequence.
C17_NoExceptionLeavesMain ==
    program = "install.py" => pc # "crashed"

\* the fields of InstallerConfig the pipeline works on
RunState == <<current_step, installed_packages, removed_packages, errors, install_mode>>

\* C18: a step of the keep-alive thread (one that leaves the pipeline thread
\* where it is) writes no field of the run state, whatever the interleaving;
\* and once a credential check of the loop has failed the loop has stopped:
\* no further check replaces the failed one and the thread never runs again.
C18_KeepAliveReadOnly ==
    [][/\ (program = "install.py" /\ pc' = pc) => UNCHANGED RunState
       /\ sudo_check_failed => (sudo_check_failed' /\ sudo_thread' = "stopped")
       /\ sudo_check_failed' => sudo_thread' = "stopped"]_vars

\* the keep-alive loop stopped on a failed check in the middle of the pipeline,
\* and the pipeline went on to its end
C18_Witness ==
    /\ sudo_check_failed /\ sudo_thread = "stopped"
    /\ pc = "done"
    /\ installed_packages # <<>>


\* C24: when the PCI enumeration of the GPU detection fails (and nothing else
\* does), the step installs nothing, the error list stays empty and the
\* pipeline goes on with the next step.
C24_DetectionFailureIsSilent ==
    (/\ trace # <<>> /\ trace[Len(trace)] = "detect_and_install_gpu_drivers"
     /\ failed = <<LspciCmd>>) =>
        /\ executed = <<LspciCmd>>
        /\ installed_packages = <<>>
        /\ errors = <<>>
        /\ pc = "setup_firewall_and_services"

\* C25: an install_flatpaks call that was asked for at least one identifier
\* and returned has queried the listing of installed applications exactly once.
C25_FlatpakListingQueriedOnce ==
    \A i \in 1..Len(calls) :
        (/\ calls[i].fn = "install_flatpaks" /\ calls[i].requested # <<>>
         /\ calls[i].raised = "none") =>
            calls[i].queries = 1

\* the command that clones and builds the AUR helper
IsYayBootstrap(command) == command[Len(command)] = "install_yay.sh"

\* C26: an operation runs the clone-and-build script of the AUR helper only in
\* a process that is not elevated and has passed check_prerequisites, only
\* while the helper is missing, at most once, and never behind sudo.
C26_YayBootstrapNotElevated ==
    [][\A i \in 1..Len(executed') :
          (pc' # pc /\ IsYayBootstrap(executed'[i])) =>
              /\ euid # 0
              /\ "check_prerequisites" \in Range(trace)
              /\ ~yay_present
              /\ "sudo" \notin Range(executed'[i])
              /\ \A j \in 1..Len(executed') : IsYayBootstrap(executed'[j]) => j = i]_vars

\* run_custom_scripts has built the helper
C26_Witness ==
    /\ pc = "make_systemd_boot_silent"
    /\ YayScript \in Range(executed)
    /\ yay_present /\ euid # 0

\* s is a prefix of t
IsPrefix(s, t) == Len(s) <= Len(t) /\ SubSeq(t, 1, Len(s)) = s

\* C27: every step of a run leaves the error list and the installed list as
\* they were or longer at the end: the old value is a prefix of the new one.
C27_ListsAppendOnly ==
    [][/\ IsPrefix(errors, errors')
       /\ IsPrefix(installed_packages, installed_packages')]_vars

\* a run that reached its summary with two installed identifiers and two error entries
C27_Witness ==
    /\ Len(installed_packages) >= 2 /\ Len(errors) >= 2
    /\ summary.printed
    /\ summary.installed = installed_packages /\ summary.errors = errors

\* C28: a run started as a regular user, with pacman on the system, a valid
\* sudo credential and the network up, eventually prints its summary.
C28_RunReachesSummary ==
    (/\ program = "install.py" /\ euid # 0 /\ pacman_present /\ sudo_valid
     /\ network) =>
        <>(summary.printed)

\* C29: no announced index exceeds total_steps, and a run that attempted every
\* step, with no command failing, and printed its summary has announced
\* total_steps steps.
C29_StepsFillTotal ==
    /\ \A i \in 1..Len(announced) : announced[i].index <= total_steps
    /\ (summary.printed /\ failed = <<>>) => Len(announced) = total_steps

\* the identifiers a call appended to the installed list
NewInstalled(c) == SubSeq(c.inst1, Len(c.inst0) + 1, Len(c.inst1))

\* C30: whatever an operation appends to the installed list was appended by one
\* of its install calls, for an identifier the installed-check of that call did
\* not report present and whose install command the call issued and which did
\* not fail; and the call appended no error entry for that identifier.
C30_InstalledOnlyAfterSuccess ==
    [][pc' # pc =>
         /\ \A i \in 1..Len(calls') :
              \A pkg \in Range(NewInstalled(calls'[i])) :
                 /\ pkg \in Range(NotPresent(calls'[i]))
                 /\ PacmanInstallCmd(pkg) \in Range(calls'[i].cmds)
                 /\ PacmanInstallCmd(pkg) \notin
                        Range(SubSeq(failed', Len(failed) + 1, Len(failed')))
                 /\ \A e \in Range(NewErrors(calls'[i])) : Target(e) # pkg
         /\ \A k \in (Len(installed_packages) + 1)..Len(installed_packages') :
              \E i \in 1..Len(calls') :
                 installed_packages'[k] \in Range(NewInstalled(calls'[i]))]_vars

\* one install call has both installed an identifier and recorded the failure
\* of another
C30_Witness ==
    \E i \in 1..Len(calls) :
        /\ NewInstalled(calls[i]) # <<>>
        /\ NewErrors(calls[i]) # <<>>
        /\ calls[i].inst1 = installed_packages

\* the number of install attempts a call made for one identifier
Attempts(c, pkg) == Cardinality({j \in 1..Len(c.attempted) : c.attempted[j] = pkg})

\* C31: in a call of install_packages, install_aur_packages or install_flatpaks
\* a failed install does not stop the loop: the call returns, and every requested
\* identifier not reported present got exactly one install attempt, whatever the
\* outcome of the identifiers before it.
C31_FailureIsolation ==
    \A i \in 1..Len(calls) :
        LET c == calls[i]
        IN  /\ c.raised = "none"
            /\ \A pkg \in Range(c.requested) \ c.present : Attempts(c, pkg) = 1

\* a call whose first install attempt failed and whose second, made all the
\* same, failed too
C31_Witness ==
    \E i \in 1..Len(calls) :
        /\ Len(NotPresent(calls[i])) = 2
        /\ Len(calls[i].attempted) = 2
        /\ Range(calls[i].attempted) \subseteq FailedIds(calls[i])

\* C32: cleanup_and_optimize removes the generated directories only when the
\* error list is empty where it looks at it: no other operation touches them,
\* a cleanup that removes one started with an empty error list and recorded no
\* entry before the removal, and from a state whose error list holds an entry
\* both directories come out of every operation as they went in.
C32_DirectoriesKeptAfterError ==
    [][/\ errors # <<>> => temp_dirs' = temp_dirs
       /\ temp_dirs' # temp_dirs =>
              /\ pc = "cleanup_and_optimize"
              /\ errors = <<>>
              /\ \A j \in 1..Len(errors') : errors'[j] = <<"Failed to execute:">> \o SyncCmd
       /\ temp_dirs = {"configs", "scripts"} \/ "cleanup_and_optimize" \in Range(trace)]_vars

\* a cleanup that ran to its end with an entry in the error list and left both
\* directories in place
C32_Witness ==
    /\ trace # <<>> /\ trace[Len(trace)] = "cleanup_and_optimize"
    /\ pc = "print_summary"
    /\ errors # <<>>
    /\ temp_dirs = {"configs", "scripts"}

\* C36: the removed-packages list is empty in every state, and so is the list
\* the summary reports as removed, also in a run whose desktop-specific removal
\* command has succeeded.
C36_NothingRecordedAsRemoved ==
    /\ removed_packages = <<>>
    /\ summary.removed = <<>>

\* a summary printed in a run that removed htop: the Flatpak installed is one
\* requested only on KDE, GNOME and COSMIC, the desktops for which
\* install_user_programs runs the removal, and that command did not fail
C36_Witness ==
    /\ summary.printed
    /\ "io.github.shiftey.Desktop" \in succeeded
    /\ RemoveCmd("htop") \notin Range(failed)
    /\ summary.removed = <<>>

-----------------------------------------------------------------------------
\* Properties of the Qt front-end: the worker's emissions (emitted), the lines
\* it read (stdout_lines) and what the window shows.

\* C16: when the installer run ended with a non-empty error list, the front-end,
\* once it has handled the worker's finished signal, shows the failure dialog.
C16_ErrorsShownAsFailure ==
    (/\ installer_thread = "finished" /\ finished_signal = <<>>
     /\ process.state = "exited" /\ process.errors) =>
        dialog = "failure"

\* the worker's emissions for the line with the given number, in order
LineEvents(n) == SelectSeq(emitted, LAMBDA e : e.line = n)

\* C19: for each line the worker read there is exactly one text emission, it
\* carries the stripped line, the text emissions are in the order of the lines,
\* and a line has at most one progress update, emitted after its text.
C19_OneTextThenAtMostOneProgress ==
    /\ \A i \in 1..Len(stdout_lines) :
          /\ Len(LineEvents(i)) \in {1, 2}
          /\ LineEvents(i)[1].signal = "output_received"
          /\ LineEvents(i)[1].text = strip(stdout_lines[i])
          /\ Len(LineEvents(i)) = 2 => LineEvents(i)[2].signal = "progress_updated"
    /\ \A j, k \in 1..Len(emitted) :
          (j < k /\ emitted[j].line > 0 /\ emitted[k].line > 0) =>
              emitted[j].line <= emitted[k].line
    /\ \A j \in 1..Len(emitted) : emitted[j].line <= Len(stdout_lines)

\* two lines read, one with a progress update and one without
C19_Witness ==
    /\ Len(stdout_lines) = 2
    /\ \E i, j \in 1..2 : Len(LineEvents(i)) = 2 /\ Len(LineEvents(j)) = 1
    /\ Len(output_text) = 2 /\ progress_bar > 0

\* the line the worker read last
LastLine == stdout_lines[Len(stdout_lines)]

\* C20: reading a line that holds none of the markers [1]..[19] queues its text
\* for display and nothing else, and leaves the worker's step and the progress
\* bar and label as they were; displaying a text changes neither bar nor label.
C20_UnmarkedLineOnlyDisplayed ==
    [][/\ (/\ Len(stdout_lines') = Len(stdout_lines) + 1
           /\ \A N \in 1..Len(MarkerToken) : ~Contains(LastLine', N)) =>
              /\ pending' = Append(pending, OutputReceived(Len(stdout_lines'),
                                                           strip(LastLine')))
              /\ thread_current_step' = thread_current_step
              /\ progress_bar' = progress_bar
              /\ progress_label' = progress_label
       /\ (/\ pending # <<>> /\ Head(pending).signal = "output_received"
           /\ pending' = Tail(pending)) =>
              /\ output_text' = Append(output_text, Head(pending).text)
              /\ progress_bar' = progress_bar
              /\ progress_label' = progress_label]_vars

\* a line with the unknown marker [20], read after step 2 was shown, is on
\* display while worker and bar still stand at step 2
C20_Witness ==
    /\ Len(stdout_lines) = 2
    /\ Branch(strip(stdout_lines[1])) = 2
    /\ stdout_lines[2] = <<"[20]", "x">>
    /\ thread_current_step = 2 /\ progress_bar = 2
    /\ progress_label = "Installing helper utilities"
    /\ output_text # <<>> /\ output_text[Len(output_text)] = <<"[20]", "x">>


\* C21: the progress bar stays within 0..19; update_progress sets it to the N
\* of a marker of the chain and the label to the description of N; and, from
\* the start of the session to the end of its first run, the bar never goes down.
C21_ProgressBoundedAndAdvancing ==
    [][/\ progress_bar' \in 0..19
       /\ (pending # <<>> /\ Head(pending).signal = "progress_updated"
           /\ pending' = Tail(pending)) =>
              /\ progress_bar' = Head(pending).code
              /\ progress_bar' \in 1..Len(MarkerToken)
              /\ progress_label' = MarkerDescription[progress_bar']
       /\ dialog = "none" => progress_bar' >= progress_bar]_vars

\* C22: once a close has been accepted, neither the worker thread nor the
\* subprocess it started is running.
C22_CloseLeavesNothingRunning ==
    pc = "closed" => (installer_thread # "running" /\ process.state # "running")

\* the places of the finished emissions among the emissions of the latest run
FinishedAt == {k \in 1..Len(emitted) : emitted[k].signal = "finished"}

\* the latest run went through the except branch of run
RunRaised == \E k \in 1..Len(emitted) : emitted[k] = OutputReceived(0, <<"Error:">>)

\* one finished emission, the last emission of the run, carrying 1 after the
\* except branch and the subprocess's return code otherwise
FinishedOnceAndLast ==
    /\ FinishedAt = {Len(emitted)}
    /\ emitted[Len(emitted)].code = IF RunRaised THEN 1 ELSE process.returncode

\* C34: as stated: every run of the worker that has ended, by itself or by the
\* terminate() of an accepted close, has emitted finished exactly once, as its
\* last emission and with the code of its way of ending.
C34_FinishedExactlyOnce ==
    installer_thread \in {"finished", "terminated"} => FinishedOnceAndLast

\* C34, amended: no run emits finished more than once or emits anything after
\* it; a run that ends by itself has emitted finished exactly once, as its last
\* emission, with the subprocess's return code after a normal completion and 1
\* after the except branch; a run ended by terminate() has emitted no finished.
C34_FinishedOnceUnlessTerminated ==
    /\ Cardinality(FinishedAt) <= 1
    /\ FinishedAt \subseteq {Len(emitted)}
    /\ installer_thread = "finished" => FinishedOnceAndLast
    /\ installer_thread \in {"running", "terminated"} => FinishedAt = {}

\* a run that ended by itself after a line with a progress update, normally
\* with return code 1 or through the except branch, finished(1) its last emission
C34_Witness ==
    /\ installer_thread = "finished"
    /\ \E k \in 1..Len(emitted) : emitted[k].signal = "progress_updated"
    /\ \/ ~RunRaised /\ process.returncode = 1 /\ emitted[Len(emitted)] = Finished(1)
       \/ RunRaised /\ process.returncode = 0 /\ emitted[Len(emitted)] = Finished(1)

\* a step of start_installation that starts a worker
StartsWorker == start_button /\ ~start_button' /\ installer_thread' = "running"

\* C35: the start button is disabled while a worker runs and until the finished
\* signal of that worker has been handled, whatever is answered to an exit
\* confirmation in between; a worker is started only from a state in which no
\* worker is running and no finished signal is waiting, and the emissions of a
\* running worker are never reset by a new start.
C35_AtMostOneWorker ==
    [][/\ (installer_thread' = "running" \/ finished_signal' # <<>>) => ~start_button'
       /\ StartsWorker => (installer_thread # "running" /\ finished_signal = <<>>)
       /\ (installer_thread = "running" /\ installer_thread' = "running") =>
              (Len(emitted') >= Len(emitted) /\ ~start_button')]_vars

\* a second worker running, started after the finished signal of the first was
\* handled, with the start button disabled again
C35_Witness ==
    /\ dialog \in {"success", "failure"}
    /\ installer_thread = "running"
    /\ process.state = "running"
    /\ finished_signal = <<>>
    /\ ~start_button

-----------------------------------------------------------------------------
\* Properties of the file mutations, checked in FileSpec.

\* C23: applying a step's file mutations a second time, to the file the first
\* application produced, leaves the file unchanged.
C23_SecondApplicationChangesNothing ==
    [][(file_kind \in {"pacman.conf", "entry"} /\ applications = 1) => file' = file]_vars

\* the lines of a file that start with "default " / with "timeout"
DefaultLines(f) == {i \in 1..Len(f) : StartsWithWord(f[i], "default")}
TimeoutLines(f) == {i \in 1..Len(f) : StartsWith(f[i], <<"timeout">>)}

\* C33: as stated: one successful run of change_loader_conf leaves a loader.conf
\* with exactly one line starting with "default ", that line being
\* "default @saved" and the first of the file, with at least one timeout line and
\* every timeout line reading "timeout 3"; a second run on that file changes
\* nothing.  The files start from every content of up to MaxFileLines lines,
\* the file without lines among them.
C33_LoaderConfIdempotent ==
    [][file_kind = "loader.conf" =>
          /\ applications = 0 =>
                 /\ DefaultLines(file') = {1}
                 /\ file'[1] = <<"default", "@saved">>
                 /\ TimeoutLines(file') # {}
                 /\ \A i \in TimeoutLines(file') : file'[i] = <<"timeout", "3">>
          /\ applications = 1 => file' = file]_vars

====
